---- MODULE Spec2Model ----
(***************************************************************************)
(* Peer API file-drop service of a mesh-VPN node (package ipnlocal,        *)
(* peerapi): the filename gate, the staging store, the upload handler,     *)
(* the per-upload progress notifier, the port picker and the listener      *)
(* with its accept loop.                                                   *)
(*                                                                         *)
(* Text is a sequence of one-rune strings, so that prefixes, suffixes,     *)
(* percent-escapes and path canonicalization are computed, not assumed.    *)
(* The staging directory maps base names to directory entries; a regular   *)
(* file is an inode, so that a file that is removed or re-created while    *)
(* another request still holds it open behaves as on a real filesystem.    *)
(***************************************************************************)
EXTENDS Integers, Sequences, FiniteSets, TLC

(***************************************************************************)
(* Bounds of the model.                                                    *)
(***************************************************************************)
MaxWriteTime == 7
TicksPerSecond == 2
WriteBodyLen == 3
MaxNameLen == 3
MaxDeleteStart == 2
MaxRuns == 2

\* The connections being served, each with its own handler.
Handlers == {1, 2}

(***************************************************************************)
(* Text helpers (package strings).                                         *)
(***************************************************************************)
HasPrefix(s, p) == Len(s) >= Len(p) /\ SubSeq(s, 1, Len(p)) = p

HasSuffix(s, p) == Len(s) >= Len(p) /\ SubSeq(s, Len(s) - Len(p) + 1, Len(s)) = p

TrimPrefix(s, p) == IF HasPrefix(s, p) THEN SubSeq(s, Len(p) + 1, Len(s)) ELSE s

Contains_Always(s, c) == s # <<>>

Contains(s, c) == \E i \in 1..Len(s) : s[i] = c

(***************************************************************************)
(* Runes.  "0xFF" stands for a byte that is not valid UTF-8, "TAB" and     *)
(* "NBSP" for U+0009 and U+00A0, "e'" for a two-byte letter.               *)
(***************************************************************************)
InvalidBytes == {"0xFF"}
WhiteSpace == {" ", "TAB", "NBSP"}
NonPrintable == {"TAB", "NBSP", "0xFF"}
TwoByteRunes == {"e'", "NBSP"}

utf8ValidString(s) == \A i \in 1..Len(s) : s[i] \notin InvalidBytes

unicodeIsPrint(r) == r \notin NonPrintable

\* len(s): the number of bytes of the encoding.
ByteLen(s) == Len(s) + Cardinality({ i \in 1..Len(s) : s[i] \in TwoByteRunes })

RECURSIVE TrimLeft(_)
TrimLeft(s) ==
  IF s # <<>> /\ s[1] \in WhiteSpace THEN TrimLeft(Tail(s)) ELSE s

RECURSIVE TrimRight(_)
TrimRight(s) ==
  IF s # <<>> /\ s[Len(s)] \in WhiteSpace
  THEN TrimRight(SubSeq(s, 1, Len(s) - 1))
  ELSE s

TrimSpace(s) == TrimRight(TrimLeft(s))

(***************************************************************************)
(* path.Clean: the shortest path equivalent to p by lexical processing.    *)
(***************************************************************************)
RECURSIVE SplitSlash(_, _, _)
SplitSlash(s, cur, acc) ==
  LET slashes == { i \in 1..Len(s) : s[i] = "/" } IN
  IF slashes = {}
  THEN (IF cur \o s = <<>> THEN acc ELSE Append(acc, cur \o s))
  ELSE LET i == CHOOSE k \in slashes : \A j \in slashes : k <= j
           comp == cur \o SubSeq(s, 1, i - 1)
       IN SplitSlash(SubSeq(s, i + 1, Len(s)), <<>>,
                     IF comp = <<>> THEN acc ELSE Append(acc, comp))

RECURSIVE CleanComps(_, _, _)
CleanComps(comps, rooted, out) ==
  IF comps = <<>> THEN out
  ELSE LET c == Head(comps) IN
       IF c = <<".">> THEN CleanComps(Tail(comps), rooted, out)
       ELSE IF c = <<".", ".">>
            THEN IF out # <<>> /\ out[Len(out)] # <<".", ".">>
                 THEN CleanComps(Tail(comps), rooted, SubSeq(out, 1, Len(out) - 1))
                 ELSE IF rooted
                      THEN CleanComps(Tail(comps), rooted, out)
                      ELSE CleanComps(Tail(comps), rooted, Append(out, c))
            ELSE CleanComps(Tail(comps), rooted, Append(out, c))

RECURSIVE JoinSlash(_)
JoinSlash(comps) ==
  IF comps = <<>> THEN <<>>
  ELSE IF Len(comps) = 1 THEN comps[1]
       ELSE comps[1] \o <<"/">> \o JoinSlash(Tail(comps))

pathClean(p) ==
  IF p = <<>> THEN <<".">>
  ELSE LET rooted == p[1] = "/"
           body == JoinSlash(CleanComps(SplitSlash(p, <<>>, <<>>), rooted, <<>>))
           res == IF rooted THEN <<"/">> \o body ELSE body
       IN IF res = <<>> THEN <<".">> ELSE res

(***************************************************************************)
(* The filename gate.                                                      *)
(***************************************************************************)
partialSuffix == <<".", "p", "a", "r", "t", "i", "a", "l">>

MaxFilenameLen == 255

validFilenameRune(r) ==
  IF r = "/" THEN FALSE
  ELSE IF r \in {"\\", ":", "*", "\"", "<", ">", "|"} THEN FALSE
  ELSE unicodeIsPrint(r)

diskPathOk_NoDotDotCheck(baseName) ==
  IF ~utf8ValidString(baseName) THEN FALSE
  ELSE IF TrimSpace(baseName) # baseName THEN FALSE
  ELSE IF ByteLen(baseName) > MaxFilenameLen THEN FALSE
  ELSE LET clean == pathClean(baseName) IN
       IF clean # baseName \/ clean = <<".">>
          \/ HasSuffix(clean, partialSuffix)
       THEN FALSE
       ELSE \A i \in 1..Len(baseName) : validFilenameRune(baseName[i])

\* diskPath's ok result; the path itself is the base name inside the root.
diskPathOk(baseName) ==
  IF ~utf8ValidString(baseName) THEN FALSE
  ELSE IF TrimSpace(baseName) # baseName THEN FALSE
  ELSE IF ByteLen(baseName) > MaxFilenameLen THEN FALSE
  ELSE LET clean == pathClean(baseName) IN
       IF clean # baseName \/ clean = <<".">> \/ clean = <<".", ".">>
          \/ HasSuffix(clean, partialSuffix)
       THEN FALSE
       ELSE \A i \in 1..Len(baseName) : validFilenameRune(baseName[i])

(***************************************************************************)
(* net/url: percent-decoding of a path segment.                            *)
(***************************************************************************)
HexDigits == {"0", "2", "E", "F"}

unhexPair(a, b) ==
  IF <<a, b>> = <<"2", "F">> THEN "/"
  ELSE IF <<a, b>> = <<"2", "E">> THEN "."
  ELSE IF <<a, b>> = <<"2", "0">> THEN " "
  ELSE "0xFF"

RECURSIVE unescapeOk(_)
unescapeOk(s) ==
  IF s = <<>> THEN TRUE
  ELSE IF s[1] = "%"
       THEN Len(s) >= 3 /\ s[2] \in HexDigits /\ s[3] \in HexDigits
            /\ unescapeOk(SubSeq(s, 4, Len(s)))
       ELSE unescapeOk(Tail(s))

RECURSIVE PathUnescape(_)
PathUnescape(s) ==
  IF s = <<>> THEN <<>>
  ELSE IF s[1] = "%"
       THEN <<unhexPair(s[2], s[3])>> \o PathUnescape(SubSeq(s, 4, Len(s)))
       ELSE <<s[1]>> \o PathUnescape(Tail(s))

(***************************************************************************)
(* Requests.  rawPath is the escaped path as sent; the server hands the    *)
(* handler only requests whose path decodes.  cl is the declared           *)
(* Content-Length (-1 when unknown) and body the bytes that arrive: with   *)
(* a declared length the body reader fails when fewer bytes arrive, and    *)
(* with an unknown length it can fail (connection dropped) or end.         *)
(***************************************************************************)
putPrefix == <<"/", "v", "0", "/", "p", "u", "t", "/">>

nameA == <<"a">>
nameB == <<"b">>
nameSub == <<"s">>

UploadNames == {nameA}

BadSuffixes ==
  { <<>>,
    <<"a", "%", "2", "F", "b">>,
    <<"a", "/", "b">>,
    <<".", ".">>,
    <<"%", "2", "E", "%", "2", "E">>,
    nameA \o partialSuffix }

OtherPaths == { <<"/">>, <<"/", "v", "0", "%", "2", "F", "p", "u", "t", "/", "a">> }

Request(m, p, cl, b) == [method |-> m, rawPath |-> p, cl |-> cl, body |-> b]

UploadRequests ==
  { Request("PUT", putPrefix \o nameA, 1, <<1>>),
    Request("PUT", putPrefix \o nameA, -1, <<2>>),
    Request("PUT", putPrefix \o nameA, 0, <<>>) }

RejectedRequests ==
  { Request("PUT", putPrefix \o s, 0, <<>>) : s \in BadSuffixes }
  \cup { Request("PUT", p, 0, <<>>) : p \in OtherPaths }
  \cup { Request("GET", putPrefix \o nameA, 0, <<>>), Request("GET", <<"/">>, 0, <<>>) }

Requests == { r \in UploadRequests \cup RejectedRequests : unescapeOk(r.rawPath) }

\* The requests served while uploads and store calls interleave.
CoreRequests == UploadRequests \cup { Request("GET", putPrefix \o nameA, 0, <<>>) }

NoReq == Request("", <<>>, 0, <<>>)

\* r.URL.Path and r.URL.EscapedPath() of a request whose raw path decodes.
urlPath(r) == PathUnescape(r.rawPath)

EscapedPath(r) == r.rawPath

\* Whether the read that follows the last byte of the body can fail.
ReadErrs(r) == IF r.cl = -1 THEN BOOLEAN ELSE {Len(r.body) < r.cl}

(***************************************************************************)
(* The filesystem.  An entry of the staging directory is absent, a         *)
(* (non-empty) subdirectory or a regular file with its content.  A request *)
(* that holds a file open is linked while the name still refers to the     *)
(* file it opened; what it writes after the name was removed is lost with  *)
(* the file.                                                               *)
(***************************************************************************)
NoEnt == [kind |-> "none", data |-> <<>>]
DirEnt == [kind |-> "dir", data |-> <<>>]
FileEnt(c) == [kind |-> "file", data |-> c]

DiskNames == UploadNames \cup { n \o partialSuffix : n \in UploadNames } \cup {nameB, nameSub}

EmptyDir == [n \in DiskNames |-> NoEnt]

IsRegular(e) == e.kind = "file"

(***************************************************************************)
(* Connections.  The remote address of an accepted connection is not a     *)
(* TCP address ("unix"), a TCP address that is no IP address ("bogus") or  *)
(* a well-formed one; WhoIs knows the user of some of the latter.          *)
(***************************************************************************)
TCPAddrs == {"100.64.0.1:1", "100.64.0.2:1"}

RemoteAddrs == {"unix", "bogus"} \cup TCPAddrs

Users == {"alice", "bob"}

Unknown == "unknown"

NoConn == [state |-> "none", addr |-> "", user |-> Unknown, nWhoIs |-> 0]

\* A connection whose handler was created for a peer of this user.
Serving_AsksTwice(addr, user) ==
  [state |-> "serving", addr |-> addr, user |-> user, nWhoIs |-> 2]

Serving(addr, user) == [state |-> "serving", addr |-> addr, user |-> user, nWhoIs |-> 1]

ListenerOf(ln, pc) == [ln |-> ln, pc |-> pc, c |-> 0, closeReturned |-> FALSE]

\* The last three bytes of the address listen is called with.
NoListen == [pc |-> "idle", ip |-> <<0, 0, 1>>, try |-> 0, seeds |-> <<>>,
             ports |-> <<>>, ret |-> ""]

\* The zero time.Time.
ZeroTime == -1

\* &oneConnListener{Listener: pln.ln, conn: c}: conn is whether l.conn is
\* non-nil; taken, whether an Accept has returned before; closeCalled,
\* whether Close was called; ret, what the last call returned.
OneConn == [conn |-> TRUE, taken |-> FALSE, closeCalled |-> FALSE, ret |-> ""]

\* The one name probes are run under, and the goroutines that invoke the
\* functions Run returned.
ProbeNames == {"p"}

Callers == {1, 2}

\* prober.New(): no probe is registered.  A channel is known by the number
\* of the Run call that made it, 0 standing for the nil channel a missing
\* map entry yields.  probes is Prober.probes; closed, the channels closed;
\* cancelled, the contexts cancelled; loop, where each probeLoop is; call,
\* per caller, the Run whose CancelFunc it invokes, where it is and the
\* channel it read; panicked, whether Run panicked.
NewProber ==
  [probes |-> [n \in ProbeNames |-> 0], nRuns |-> 0, closed |-> {}, cancelled |-> {},
   name |-> [g \in 1..MaxRuns |-> "p"],
   loop |-> [g \in 1..MaxRuns |-> "none"],
   call |-> [c \in Callers |-> [pc |-> "idle", g |-> 0, stopped |-> 0]],
   panicked |-> FALSE]

\* No snapshot of an incomingFile taken so far.
NoSnap == [received |-> -1, done |-> FALSE]

\* An incomingFile whose body of the given length is still to be written:
\* its fields copied, done and lastNotify, its mutex mu, the position wpc of
\* the handler's goroutine in Write or markAndNotifyDone, and the position
\* ppc of the front-end's goroutine in PartialFile.  forwarded counts the
\* bytes the underlying writer took; held is every (copied, done) pair the
\* file has held; last and prev are the two latest PartialFile results.
InFile(len) ==
  [mu |-> "", wpc |-> "idle", rest |-> len, n |-> 0, failed |-> FALSE,
   forwarded |-> 0, copied |-> 0, done |-> FALSE, lastNotify |-> ZeroTime,
   needNotify |-> FALSE, nNotify |-> 0, notifiedLocked |-> FALSE,
   ppc |-> "idle", tmp |-> 0, last |-> NoSnap, prev |-> NoSnap,
   held |-> {<<0, FALSE>>}]

(***************************************************************************)
(* State.                                                                  *)
(***************************************************************************)
VARIABLES
  rootDir,        \* peerAPIServer.rootDir: "" when file storage is disabled
  directFileMode, \* peerAPIServer.directFileMode
  goos,           \* runtime.GOOS
  knownEmpty,     \* peerAPIServer.knownEmpty
  dir,            \* the staging directory: base name -> entry
  isSelf,         \* peerAPIHandler.isSelf of every connection's handler
  hs,             \* per handler: the request being served and its incomingFile
  incomingFiles,  \* LocalBackend.incomingFiles: handlers with a registered upload
  fe,             \* the front-end's call into the store, while it runs
  resp,           \* the response of the handler that returned in the last step
  res,            \* the result of the store call that returned in the last step
  now,            \* the clock, in ticks
  whois,          \* LocalBackend.WhoIs: remote address -> user of the peer, if known
  selfUser,       \* peerAPIServer.selfNode.User
  pln,            \* the peerAPIListener: its ln, its serve loop and its Close
  conns,          \* the connections serve has accepted, and their handlers' identity
  lst,            \* a call of peerAPIServer.listen while it runs
  inf,            \* one incomingFile, its mutex and the goroutines inside its methods
  ocl,            \* per connection: the oneConnListener given to its HTTP server
  pr              \* the Prober: its table of probes, their loops, and CancelFunc calls

vars == <<rootDir, directFileMode, goos, knownEmpty, dir, isSelf, hs,
          incomingFiles, fe, resp, res, now, whois, selfUser, pln, conns, lst,
          inf, ocl, pr>>

\* What no request handler and no store call writes.
config == <<rootDir, directFileMode, goos, isSelf, whois, selfUser, pln, conns, lst,
            inf, ocl, pr>>

\* What the listener and the port picker never write.
store == <<rootDir, directFileMode, goos, knownEmpty, dir, hs, incomingFiles, fe, now>>

Second == TicksPerSecond

\* The Path of an *os.PathError; NoPath stands for an error without one.
PathError(root, name) == [root |-> root, name |-> name]

NoPath == PathError("", <<>>)

Ready ==
  [pc |-> "ready", req |-> NoReq, cap |-> FALSE, status |-> 0, msg |-> "",
   dst |-> <<>>, fdOpen |-> FALSE, linked |-> FALSE, rest |-> <<>>, copied |-> 0,
   hasInFile |-> FALSE, size |-> 0, lastNotify |-> ZeroTime, done |-> FALSE,
   nProgress |-> 0, nDone |-> 0, nFinal |-> 0, wroteKnownEmpty |-> FALSE,
   firstWrite |-> ZeroTime, lastWrite |-> ZeroTime, overlap |-> FALSE,
   latest |-> FALSE, errPath |-> NoPath]

NoResp == [h |-> 0, f |-> Ready]

FeIdle == [pc |-> "idle", name |-> <<>>, t0 |-> 0]

NoRes == [op |-> "", name |-> <<>>, ret |-> "", files |-> <<>>,
          data |-> <<>>, size |-> 0, fsAccess |-> FALSE, errPath |-> NoPath]

(***************************************************************************)
(* Filesystem primitives.                                                  *)
(***************************************************************************)
\* Whether a request other than those of H holds the file at name open.
HeldOpen(name, H) ==
  \E h \in Handlers \ H : hs[h].fdOpen /\ hs[h].linked /\ hs[h].dst = name

\* A write of p at offset off; a gap left by a truncation reads as zeroes.
RECURSIVE Zeroes(_)
Zeroes(n) == IF n <= 0 THEN <<>> ELSE <<0>> \o Zeroes(n - 1)

WriteAt(c, off, p) ==
  LET pre == IF Len(c) >= off THEN SubSeq(c, 1, off)
             ELSE c \o Zeroes(off - Len(c))
      post == IF Len(c) > off + Len(p) THEN SubSeq(c, off + Len(p) + 1, Len(c))
              ELSE <<>>
  IN pre \o p \o post

\* os.Remove: the results it can have on entry e.  A directory of the
\* staging root is not empty and cannot be removed; on Windows a file
\* cannot be removed while open, nor for a while after it was closed.
RemoveOutcomes(e, held) ==
  IF e.kind = "none" THEN {"notexist"}
  ELSE IF e.kind = "dir" THEN {"err"}
  ELSE IF goos = "windows"
       THEN (IF held THEN {"err"} ELSE {"ok", "err"})
       ELSE {"ok"}

RemovedDir(d, name, outcome) ==
  IF outcome = "ok" THEN [d EXCEPT ![name] = NoEnt] ELSE d

\* The requests that hold the removed file open keep the file, not the name.
\* overlap records that another operation acted on a request's destination
\* while the request was being served.
Unlinked(st, name, outcome) ==
  [h \in Handlers |->
     IF outcome = "ok" /\ st[h].pc # "ready" /\ st[h].dst = name
     THEN [st[h] EXCEPT !.linked = FALSE, !.overlap = TRUE] ELSE st[h]]

\* os.Create: the entry after the file was created or truncated.
osCreate_NoTruncate(e) == IF IsRegular(e) THEN e ELSE FileEnt(<<>>)

osCreate(e) == FileEnt(<<>>)

(***************************************************************************)
(* Init: a configured or disabled server whose listener has accepted a     *)
(* connection for every handler and on which no request is active.         *)
(***************************************************************************)
\* The listener is open and serve has created the handlers: each holds the
\* user WhoIs gave for its connection, and isSelf as computed from it.
Established ==
  /\ selfUser = "alice"
  /\ whois = [a \in TCPAddrs |-> IF a = "100.64.0.1:1" THEN "alice" ELSE "bob"]
  /\ conns = [h \in Handlers |->
                IF isSelf[h] THEN Serving("100.64.0.1:1", "alice")
                ELSE Serving("100.64.0.2:1", "bob")]
  /\ pln = ListenerOf("open", "accept")
  /\ lst = NoListen
  /\ inf = InFile(0)
  /\ ocl = [h \in Handlers |-> OneConn]
  /\ pr = NewProber

InitDirs ==
  { EmptyDir,
    [EmptyDir EXCEPT ![nameB] = FileEnt(<<2>>)],
    [EmptyDir EXCEPT ![nameA \o partialSuffix] = FileEnt(<<1>>), ![nameSub] = DirEnt] }

Init ==
  /\ rootDir \in {"", "/var/files"}
  /\ directFileMode \in BOOLEAN
  /\ goos \in {"linux", "windows"}
  /\ knownEmpty = FALSE
  /\ dir \in InitDirs
  /\ (rootDir = "" => dir = EmptyDir)
  /\ isSelf \in [Handlers -> BOOLEAN]
  /\ hs = [h \in Handlers |-> Ready]
  /\ incomingFiles = {}
  /\ fe = FeIdle
  /\ resp = NoResp
  /\ res = NoRes
  /\ now = 0
  /\ Established

(***************************************************************************)
(* incomingFile.Write, given the number n of bytes the underlying writer   *)
(* took and the time of the call: the counter and the notification         *)
(* decision.  nProgress counts the sendFileNotify calls it makes.          *)
(***************************************************************************)
Write_NotStrict(f, n, t) ==
  LET needNotify == n > 0 /\ (f.lastNotify = ZeroTime \/ t - f.lastNotify >= Second)
  IN [f EXCEPT !.copied = IF n > 0 THEN @ + n ELSE @,
               !.lastNotify = IF needNotify THEN t ELSE @,
               !.nProgress = IF needNotify THEN @ + 1 ELSE @,
               !.firstWrite = IF @ = ZeroTime THEN t ELSE @,
               !.lastWrite = t]

Write(f, n, t) ==
  LET needNotify == n > 0 /\ (f.lastNotify = ZeroTime \/ t - f.lastNotify > Second)
  IN [f EXCEPT !.copied = IF n > 0 THEN @ + n ELSE @,
               !.lastNotify = IF needNotify THEN t ELSE @,
               !.nProgress = IF needNotify THEN @ + 1 ELSE @,
               !.firstWrite = IF @ = ZeroTime THEN t ELSE @,
               !.lastWrite = t]

\* incomingFile.markAndNotifyDone
markAndNotifyDone(f) == [f EXCEPT !.done = TRUE, !.nDone = @ + 1]

(***************************************************************************)
(* peerAPIHandler.handlePeerPut: the checks before the file is created.    *)
(* status 0 means that every check passed.                                 *)
(***************************************************************************)
putChecks_NoOwnerCheck(self, cap, r) ==
  LET rawPath == EscapedPath(r)
      suffix == TrimPrefix(rawPath, putPrefix)
  IN IF ~cap THEN [status |-> 403, msg |-> "file sharing not enabled by Tailscale admin"]
     ELSE IF r.method # "PUT" THEN [status |-> 405, msg |-> "expected method PUT"]
     ELSE IF rootDir = "" THEN [status |-> 500, msg |-> "no rootdir"]
     ELSE IF suffix = rawPath THEN [status |-> 500, msg |-> "misconfigured internals"]
     ELSE IF suffix = <<>> THEN [status |-> 400, msg |-> "empty filename"]
     ELSE IF Contains(suffix, "/") THEN [status |-> 400, msg |-> "directories not supported"]
     ELSE IF ~unescapeOk(suffix) THEN [status |-> 400, msg |-> "bad path encoding"]
     ELSE IF ~diskPathOk(PathUnescape(suffix)) THEN [status |-> 400, msg |-> "bad filename"]
     ELSE [status |-> 0, msg |-> ""]

putChecks_MethodFirst(self, cap, r) ==
  LET rawPath == EscapedPath(r)
      suffix == TrimPrefix(rawPath, putPrefix)
  IN IF r.method # "PUT" THEN [status |-> 405, msg |-> "expected method PUT"]
     ELSE IF ~self THEN [status |-> 403, msg |-> "not owner"]
     ELSE IF ~cap THEN [status |-> 403, msg |-> "file sharing not enabled by Tailscale admin"]
     ELSE IF rootDir = "" THEN [status |-> 500, msg |-> "no rootdir"]
     ELSE IF suffix = rawPath THEN [status |-> 500, msg |-> "misconfigured internals"]
     ELSE IF suffix = <<>> THEN [status |-> 400, msg |-> "empty filename"]
     ELSE IF Contains(suffix, "/") THEN [status |-> 400, msg |-> "directories not supported"]
     ELSE IF ~unescapeOk(suffix) THEN [status |-> 400, msg |-> "bad path encoding"]
     ELSE IF ~diskPathOk(PathUnescape(suffix)) THEN [status |-> 400, msg |-> "bad filename"]
     ELSE [status |-> 0, msg |-> ""]

putChecks(self, cap, r) ==
  LET rawPath == EscapedPath(r)
      suffix == TrimPrefix(rawPath, putPrefix)
  IN IF ~self THEN [status |-> 403, msg |-> "not owner"]
     ELSE IF ~cap THEN [status |-> 403, msg |-> "file sharing not enabled by Tailscale admin"]
     ELSE IF r.method # "PUT" THEN [status |-> 405, msg |-> "expected method PUT"]
     ELSE IF rootDir = "" THEN [status |-> 500, msg |-> "no rootdir"]
     ELSE IF suffix = rawPath THEN [status |-> 500, msg |-> "misconfigured internals"]
     ELSE IF suffix = <<>> THEN [status |-> 400, msg |-> "empty filename"]
     ELSE IF Contains(suffix, "/") THEN [status |-> 400, msg |-> "directories not supported"]
     ELSE IF ~unescapeOk(suffix) THEN [status |-> 400, msg |-> "bad path encoding"]
     ELSE IF ~diskPathOk(PathUnescape(suffix)) THEN [status |-> 400, msg |-> "bad filename"]
     ELSE [status |-> 0, msg |-> ""]

\* dstFile, relative to the root.
dstFile_NoPartial(r) == PathUnescape(TrimPrefix(EscapedPath(r), putPrefix))

dstFile(r) ==
  LET baseName == PathUnescape(TrimPrefix(EscapedPath(r), putPrefix))
  IN IF directFileMode THEN baseName \o partialSuffix ELSE baseName

\* The handler of h returns with a response and without having created a file.
Respond(h, r, cap, dst, status, msg) ==
  /\ resp' = [h |-> h, f |-> [Ready EXCEPT !.req = r, !.cap = cap, !.dst = dst,
                                           !.status = status, !.msg = msg,
                                           !.errPath = IF msg = "create error"
                                                       THEN PathError(rootDir, dst)
                                                       ELSE NoPath]]
  /\ UNCHANGED <<hs, dir, incomingFiles>>

\* The handler returns: its descriptor is closed and its state is dropped.
\* The body of an error response is err.Error(), which for the error of
\* f.Close() or of a failed write holds the path of the file.
Returned(h, f, status, msg) ==
  [h |-> h, f |-> [f EXCEPT !.pc = "ready", !.fdOpen = FALSE, !.linked = FALSE,
                            !.status = status, !.msg = msg,
                            !.errPath = IF msg = "close error"
                                        THEN PathError(rootDir, f.dst) ELSE @]]

\* io.Copy after a chunk: the next read yields more bytes, the end of the
\* body, or an error.
afterRead(rest, readErr) ==
  IF rest # <<>> THEN "copy" ELSE IF readErr THEN "copyErr" ELSE "close"

ContentLengthNonZero_Always(r) == TRUE

\* if r.ContentLength != 0: whether the request gets an incomingFile.
ContentLengthNonZero(r) == r.cl # 0

\* handlePeerPut up to and including os.Create, the registration of the
\* incomingFile and the first read of the body.
handlePeerPut(h, r, cap, createErr, readErr) ==
  LET v == putChecks(isSelf[h], cap, r) IN
  IF v.status # 0
  THEN Respond(h, r, cap, <<>>, v.status, v.msg)
  ELSE LET dst == dstFile(r)
           others == { x \in Handlers \ {h} : hs[x].pc # "ready" /\ hs[x].dst = dst }
       IN
       IF createErr \/ dir[dst].kind = "dir"
       THEN Respond(h, r, cap, dst, 500, "create error")
       ELSE /\ dir' = [dir EXCEPT ![dst] = osCreate(@)]
            /\ hs' = [x \in Handlers |->
                        IF x = h
                        THEN [Ready EXCEPT !.req = r, !.cap = cap, !.dst = dst,
                                           !.fdOpen = TRUE, !.linked = TRUE,
                                           !.pc = IF ContentLengthNonZero(r)
                                                  THEN afterRead(r.body, readErr)
                                                  ELSE "close",
                                           !.hasInFile = ContentLengthNonZero(r),
                                           !.size = r.cl,
                                           !.rest = IF ContentLengthNonZero(r)
                                                    THEN r.body ELSE <<>>,
                                           !.overlap = others # {},
                                           !.latest = TRUE]
                        ELSE IF x \in others
                        THEN [hs[x] EXCEPT !.overlap = TRUE, !.latest = FALSE]
                        ELSE hs[x]]
            /\ incomingFiles' = IF ContentLengthNonZero(r) THEN incomingFiles \cup {h}
                                ELSE incomingFiles
            /\ resp' = NoResp

\* peerAPIHandler.ServeHTTP: the upload endpoint or the greeting.
ServeHTTP(h, R) ==
  /\ conns[h].state = "serving"
  /\ hs[h].pc = "ready"
  /\ \E r \in R, cap \in BOOLEAN, createErr \in BOOLEAN :
       IF HasPrefix(urlPath(r), putPrefix)
       THEN \E readErr \in ReadErrs(r) : handlePeerPut(h, r, cap, createErr, readErr)
       ELSE Respond(h, r, cap, <<>>, 200, "greeting")
  /\ res' = NoRes
  /\ UNCHANGED <<config, knownEmpty, fe, now>>

\* io.Copy: one chunk of the body goes through incomingFile.Write; the
\* underlying file takes k of its n bytes, and fewer than n is an error.
CopyWrite(h) ==
  /\ hs[h].pc = "copy"
  /\ \E n \in 1..Len(hs[h].rest), readErr \in ReadErrs(hs[h].req) : \E k \in 0..n :
       LET f == hs[h]
           p == SubSeq(f.rest, 1, k)
           g == Write(f, k, now)
           rest == SubSeq(f.rest, n + 1, Len(f.rest))
       IN /\ dir' = IF f.linked
                    THEN [dir EXCEPT ![f.dst] = FileEnt(WriteAt(@.data, f.copied, p))]
                    ELSE dir
          /\ hs' = [hs EXCEPT ![h] =
                      IF k < n THEN [g EXCEPT !.pc = "copyErr", !.rest = <<>>,
                                              !.errPath = PathError(rootDir, f.dst)]
                      ELSE [g EXCEPT !.rest = rest,
                                     !.pc = afterRead(rest, readErr)]]
  /\ resp' = NoResp
  /\ res' = NoRes
  /\ UNCHANGED <<config, knownEmpty, incomingFiles, fe, now>>


FailAndCleanup_Notifies(h, msg) ==
  /\ \E o \in RemoveOutcomes(dir[hs[h].dst], HeldOpen(hs[h].dst, {h})) :
       /\ dir' = RemovedDir(dir, hs[h].dst, o)
       /\ hs' = [Unlinked(hs, hs[h].dst, o) EXCEPT ![h] = Ready]
  /\ resp' = Returned(h, [hs[h] EXCEPT !.nFinal = @ + 1], 500, msg)
  /\ incomingFiles' = incomingFiles \ {h}
  /\ UNCHANGED knownEmpty

\* The deferred calls of a request that did not succeed: the upload is
\* unregistered and os.Remove(dstFile) is attempted, its result ignored.
FailAndCleanup(h, msg) ==
  /\ \E o \in RemoveOutcomes(dir[hs[h].dst], HeldOpen(hs[h].dst, {h})) :
       /\ dir' = RemovedDir(dir, hs[h].dst, o)
       /\ hs' = [Unlinked(hs, hs[h].dst, o) EXCEPT ![h] = Ready]
  /\ resp' = Returned(h, hs[h], 500, msg)
  /\ incomingFiles' = incomingFiles \ {h}
  /\ UNCHANGED knownEmpty

\* handlePeerPut after a failed io.Copy.
CopyFail(h) ==
  /\ hs[h].pc = "copyErr"
  /\ FailAndCleanup(h, "copy error")
  /\ res' = NoRes
  /\ UNCHANGED <<config, fe, now>>

\* handlePeerPut: f.Close(); then markAndNotifyDone, the response and
\* h.ps.knownEmpty.Set(false).
CloseFile(h) ==
  /\ hs[h].pc = "close"
  /\ \E closeErr \in BOOLEAN :
       IF closeErr
       THEN FailAndCleanup(h, "close error")
       ELSE /\ hs' = [hs EXCEPT ![h] =
                        LET f == IF directFileMode /\ @.hasInFile
                                 THEN markAndNotifyDone(@) ELSE @
                        IN [f EXCEPT !.pc = "notify", !.fdOpen = FALSE, !.linked = FALSE,
                                     !.status = 200, !.msg = "{}",
                                     !.wroteKnownEmpty = TRUE]]
            /\ knownEmpty' = FALSE
            /\ resp' = NoResp
            /\ UNCHANGED <<dir, incomingFiles>>
  /\ res' = NoRes
  /\ UNCHANGED <<config, fe, now>>

FinalNotify_StaysRegistered(h) ==
  /\ hs[h].pc = "notify"
  /\ resp' = Returned(h, [hs[h] EXCEPT !.nFinal = @ + 1], hs[h].status, hs[h].msg)
  /\ hs' = [hs EXCEPT ![h] = Ready]
  /\ incomingFiles' = incomingFiles
  /\ res' = NoRes
  /\ UNCHANGED <<config, knownEmpty, dir, fe, now>>

\* handlePeerPut: the final sendFileNotify, the deferred unregistration and
\* the return.
FinalNotify(h) ==
  /\ hs[h].pc = "notify"
  /\ resp' = Returned(h, [hs[h] EXCEPT !.nFinal = @ + 1], hs[h].status, hs[h].msg)
  /\ hs' = [hs EXCEPT ![h] = Ready]
  /\ incomingFiles' = incomingFiles \ {h}
  /\ res' = NoRes
  /\ UNCHANGED <<config, knownEmpty, dir, fe, now>>

(***************************************************************************)
(* The end of a successful handlePeerPut once more, one statement at a     *)
(* step, so that the order of f.Close, markAndNotifyDone and the response  *)
(* can be observed.                                                        *)
(***************************************************************************)
\* f.Close()
CloseOnly(h) ==
  /\ hs[h].pc = "close"
  /\ \E closeErr \in BOOLEAN :
       IF closeErr
       THEN FailAndCleanup(h, "close error")
       ELSE /\ hs' = [hs EXCEPT ![h] = [@ EXCEPT !.pc = "closed", !.fdOpen = FALSE,
                                                 !.linked = FALSE]]
            /\ resp' = NoResp
            /\ UNCHANGED <<dir, incomingFiles, knownEmpty>>
  /\ res' = NoRes
  /\ UNCHANGED <<config, fe, now>>

\* if h.ps.directFileMode { if inFile != nil { inFile.markAndNotifyDone() } }
MarkDone(h) ==
  /\ hs[h].pc = "closed"
  /\ hs' = [hs EXCEPT ![h] =
              LET f == IF directFileMode /\ @.hasInFile THEN markAndNotifyDone(@) ELSE @
              IN [f EXCEPT !.pc = "marked"]]
  /\ resp' = NoResp
  /\ res' = NoRes
  /\ UNCHANGED <<config, knownEmpty, dir, incomingFiles, fe, now>>

\* success = true; io.WriteString(w, "{}\n"); h.ps.knownEmpty.Set(false)
WriteOk(h) ==
  /\ hs[h].pc = "marked"
  /\ hs' = [hs EXCEPT ![h] = [@ EXCEPT !.pc = "notify", !.status = 200, !.msg = "{}",
                                       !.wroteKnownEmpty = TRUE]]
  /\ knownEmpty' = FALSE
  /\ resp' = NoResp
  /\ res' = NoRes
  /\ UNCHANGED <<config, dir, incomingFiles, fe, now>>

(***************************************************************************)
(* The staging store, as called by the front-end.                          *)
(***************************************************************************)
FeNames == {nameA, nameSub, <<".", ".">>}

DiskOrder == <<nameA, nameA \o partialSuffix, nameB, nameSub>>

DeleteRetrySeconds == 10

Result(op, name, ret, access) ==
  [NoRes EXCEPT !.op = op, !.name = name, !.ret = ret, !.fsAccess = access]

hasFilesWaitingFast_NoDirectCheck(root, direct, known) ==
  IF root = "" THEN "fast"
  ELSE IF known THEN "cached"
  ELSE "scan"

\* hasFilesWaiting: the checks that answer false without a scan.
hasFilesWaitingFast(root, direct, known) ==
  IF root = "" \/ direct THEN "fast"
  ELSE IF known THEN "cached"
  ELSE "scan"

\* hasFilesWaiting: what the scan of the directory looks for.
AnyWaiting(d) ==
  \E n \in DiskNames : ~HasSuffix(n, partialSuffix) /\ IsRegular(d[n])

\* hasFilesWaiting up to the end of the directory scan.
hasFilesWaiting ==
  /\ fe.pc = "idle"
  /\ \E openErr \in BOOLEAN :
       LET v == hasFilesWaitingFast(rootDir, directFileMode, knownEmpty) IN
       IF v # "scan"
       THEN res' = Result("hasFilesWaiting", <<>>, "false", FALSE) /\ fe' = fe
       ELSE IF openErr
       THEN res' = Result("hasFilesWaiting", <<>>, "false", TRUE) /\ fe' = fe
       ELSE IF AnyWaiting(dir)
       THEN res' = Result("hasFilesWaiting", <<>>, "true", TRUE) /\ fe' = fe
       ELSE res' = NoRes /\ fe' = [fe EXCEPT !.pc = "scanned"]
  /\ resp' = NoResp
  /\ UNCHANGED <<config, knownEmpty, dir, hs, incomingFiles, now>>

\* hasFilesWaiting after a scan that found nothing: s.knownEmpty.Set(true)
hasFilesWaitingSetEmpty ==
  /\ fe.pc = "scanned"
  /\ knownEmpty' = TRUE
  /\ fe' = FeIdle
  /\ res' = Result("hasFilesWaiting", <<>>, "false", TRUE)
  /\ resp' = NoResp
  /\ UNCHANGED <<config, dir, hs, incomingFiles, now>>

RECURSIVE ListWaiting_NoSuffixFilter(_, _)
ListWaiting_NoSuffixFilter(d, names) ==
  IF names = <<>> THEN <<>>
  ELSE LET name == Head(names)
           more == ListWaiting_NoSuffixFilter(d, Tail(names))
       IN IF IsRegular(d[name])
          THEN <<[name |-> name, size |-> Len(d[name].data)]>> \o more
          ELSE more

\* WaitingFiles: the entries listed by the loop over the directory.
RECURSIVE ListWaiting(_, _)
ListWaiting(d, names) ==
  IF names = <<>> THEN <<>>
  ELSE LET name == Head(names)
           more == ListWaiting(d, Tail(names))
       IN IF HasSuffix(name, partialSuffix) THEN more
          ELSE IF IsRegular(d[name])
               THEN <<[name |-> name, size |-> Len(d[name].data)]>> \o more
               ELSE more

WaitingFiles ==
  /\ fe.pc = "idle"
  /\ \E openErr \in BOOLEAN :
       IF rootDir = ""
       THEN res' = Result("WaitingFiles", <<>>, "peerapi disabled; no storage configured", FALSE)
       ELSE IF directFileMode THEN res' = Result("WaitingFiles", <<>>, "ok", FALSE)
       ELSE IF openErr THEN res' = Result("WaitingFiles", <<>>, "io error", TRUE)
       ELSE res' = [Result("WaitingFiles", <<>>, "ok", TRUE)
                      EXCEPT !.files = ListWaiting(dir, DiskOrder)]
  /\ resp' = NoResp
  /\ UNCHANGED <<config, knownEmpty, dir, hs, incomingFiles, fe, now>>

deleteChecks_NameFirst(name) ==
  IF rootDir = "" THEN "peerapi disabled; no storage configured"
  ELSE IF ~diskPathOk(name) THEN "bad filename"
  ELSE IF directFileMode THEN "deletes not allowed in direct mode"
  ELSE ""

\* DeleteFile: the checks before the first os.Remove; "" when all pass.
deleteChecks(name) ==
  IF rootDir = "" THEN "peerapi disabled; no storage configured"
  ELSE IF directFileMode THEN "deletes not allowed in direct mode"
  ELSE IF ~diskPathOk(name) THEN "bad filename"
  ELSE ""

\* DeleteFile: err == nil || os.IsNotExist(err)
removeSucceeded_Strict(o) == o = "ok"

removeSucceeded(o) == o \in {"ok", "notexist"}

retryDelete_AnyOS(t0) == now - t0 < DeleteRetrySeconds * Second

\* DeleteFile: if runtime.GOOS == "windows" { ... if time.Since(t0) < 10*time.Second {
retryDelete(t0) == goos = "windows" /\ now - t0 < DeleteRetrySeconds * Second

\* DeleteFile: one pass of the loop around os.Remove.
deleteAttempt(name, t0) ==
  \E o \in RemoveOutcomes(dir[name], HeldOpen(name, {})) :
    IF removeSucceeded(o)
    THEN /\ dir' = RemovedDir(dir, name, o)
         /\ hs' = Unlinked(hs, name, o)
         /\ res' = Result("DeleteFile", name, "ok", TRUE)
         /\ fe' = FeIdle
    ELSE /\ UNCHANGED <<dir, hs>>
         /\ IF retryDelete(t0)
            THEN res' = NoRes /\ fe' = [pc |-> "backoff", name |-> name, t0 |-> t0]
            ELSE /\ res' = [Result("DeleteFile", name, "remove error", TRUE)
                              EXCEPT !.errPath = PathError("", <<"redact">>)]
                 /\ fe' = FeIdle

DeleteFile ==
  /\ fe.pc = "idle"
  /\ \E name \in FeNames :
       IF deleteChecks(name) # ""
       THEN /\ res' = Result("DeleteFile", name, deleteChecks(name), FALSE)
            /\ UNCHANGED <<dir, hs, fe>>
       ELSE deleteAttempt(name, now)
  /\ resp' = NoResp
  /\ UNCHANGED <<config, knownEmpty, incomingFiles, now>>

\* DeleteFile on Windows: the next pass after bo.BackOff.
DeleteRetry ==
  /\ fe.pc = "backoff"
  /\ deleteAttempt(fe.name, fe.t0)
  /\ resp' = NoResp
  /\ UNCHANGED <<config, knownEmpty, incomingFiles, now>>

openChecks(name) ==
  IF rootDir = "" THEN "peerapi disabled; no storage configured"
  ELSE IF directFileMode THEN "opens not allowed in direct mode"
  ELSE IF ~diskPathOk(name) THEN "bad filename"
  ELSE ""

OpenFile ==
  /\ fe.pc = "idle"
  /\ \E name \in FeNames \ {nameSub}, statErr \in BOOLEAN :
       IF openChecks(name) # ""
       THEN res' = Result("OpenFile", name, openChecks(name), FALSE)
       ELSE IF ~IsRegular(dir[name])
            THEN res' = [Result("OpenFile", name, "open error", TRUE)
                           EXCEPT !.errPath = PathError(rootDir, name)]
            ELSE IF statErr
            THEN res' = [Result("OpenFile", name, "stat error", TRUE)
                           EXCEPT !.errPath = PathError(rootDir, name)]
            ELSE res' = [Result("OpenFile", name, "ok", TRUE)
                           EXCEPT !.data = dir[name].data,
                                  !.size = Len(dir[name].data)]
  /\ resp' = NoResp
  /\ UNCHANGED <<config, knownEmpty, dir, hs, incomingFiles, fe, now>>

\* peerAPIServer.diskPath, called with the name the call in fe holds.
diskPath ==
  /\ fe.pc = "idle"
  /\ res' = Result("diskPath", fe.name,
                   IF diskPathOk(fe.name) THEN "ok" ELSE "bad filename", FALSE)
  /\ resp' = NoResp
  /\ UNCHANGED <<config, knownEmpty, dir, hs, incomingFiles, fe, now>>

(***************************************************************************)
(* The listener: peerAPIListener.serve, its accept loop, and Close.        *)
(***************************************************************************)
\* A step of the listener or of the port picker returns nothing to a peer
\* or to the front-end.
Quiet ==
  /\ resp' = NoResp
  /\ res' = NoRes
  /\ UNCHANGED store

\* serve: what the loop finds out about the remote address of a connection:
\* whether it gets a handler, for which user, and how often WhoIs was asked.
resolvePeer_NoUnknownCheck(a) ==
  IF a = "unix" THEN [ok |-> FALSE, user |-> Unknown, asked |-> 0]
  ELSE IF a = "bogus" THEN [ok |-> FALSE, user |-> Unknown, asked |-> 0]
  ELSE [ok |-> TRUE, user |-> whois[a], asked |-> 1]

resolvePeer(a) ==
  IF a = "unix" THEN [ok |-> FALSE, user |-> Unknown, asked |-> 0]
  ELSE IF a = "bogus" THEN [ok |-> FALSE, user |-> Unknown, asked |-> 0]
  ELSE IF whois[a] = Unknown THEN [ok |-> FALSE, user |-> Unknown, asked |-> 1]
  ELSE [ok |-> TRUE, user |-> whois[a], asked |-> 1]

\* serve up to its loop: without a listener it returns at once.
serveStart ==
  /\ pln.pc = "idle"
  /\ pln' = [pln EXCEPT !.pc = IF pln.ln = "nil" THEN "exited" ELSE "accept"]
  /\ Quiet
  /\ UNCHANGED <<isSelf, whois, selfUser, conns, lst, inf, pr, ocl>>

Accept_NoErrClosed ==
  /\ pln.pc = "accept"
  /\ \/ /\ pln.ln = "open"
        /\ pln' = [pln EXCEPT !.pc = "exited", !.ln = "closed"]
        /\ conns' = conns
     \/ \E c \in Handlers, a \in RemoteAddrs :
             /\ conns[c].state = "none"
             /\ \A d \in Handlers : d < c => conns[d].state # "none"
             /\ conns' = [conns EXCEPT ![c] = [NoConn EXCEPT !.state = "accepted", !.addr = a]]
             /\ pln' = [pln EXCEPT !.pc = "dispatch", !.c = c]
  /\ Quiet
  /\ UNCHANGED <<isSelf, whois, selfUser, lst, inf, pr, ocl>>

\* pln.ln.Accept(): the listener was closed, another error, or a connection.
Accept ==
  /\ pln.pc = "accept"
  /\ \/ /\ pln.ln = "closed"
        /\ pln' = [pln EXCEPT !.pc = "exited"]
        /\ conns' = conns
     \/ /\ pln.ln = "open"
        /\ pln' = [pln EXCEPT !.pc = "exited", !.ln = "closed"]
        /\ conns' = conns
     \/ /\ pln.ln = "open"
        /\ \E c \in Handlers, a \in RemoteAddrs :
             /\ conns[c].state = "none"
             /\ \A d \in Handlers : d < c => conns[d].state # "none"
             /\ conns' = [conns EXCEPT ![c] = [NoConn EXCEPT !.state = "accepted", !.addr = a]]
             /\ pln' = [pln EXCEPT !.pc = "dispatch", !.c = c]
  /\ Quiet
  /\ UNCHANGED <<isSelf, whois, selfUser, lst, inf, pr, ocl>>

\* The rest of an iteration: the connection is closed, or gets a handler
\* and a server of its own.
Dispatch ==
  /\ pln.pc = "dispatch"
  /\ LET c == pln.c
         a == conns[c].addr
         p == resolvePeer(a)
     IN IF ~p.ok
        THEN /\ conns' = [conns EXCEPT ![c] = [@ EXCEPT !.state = "closed", !.nWhoIs = p.asked]]
             /\ isSelf' = isSelf
             /\ ocl' = ocl
        ELSE /\ conns' = [conns EXCEPT ![c] = Serving(a, p.user)]
             /\ isSelf' = [isSelf EXCEPT ![c] = (selfUser = p.user)]
             /\ ocl' = [ocl EXCEPT ![c] = OneConn]
  /\ pln' = [pln EXCEPT !.pc = "accept", !.c = 0]
  /\ Quiet
  /\ UNCHANGED <<whois, selfUser, lst, inf, pr>>

\* peerAPIListener.Close
Close ==
  /\ ~pln.closeReturned
  /\ pln' = [pln EXCEPT !.ln = IF @ = "nil" THEN "nil" ELSE "closed",
                        !.closeReturned = TRUE]
  /\ Quiet
  /\ UNCHANGED <<isSelf, whois, selfUser, conns, lst, inf, pr, ocl>>

oneConnListenerClose_ClosesListener(h) ==
  /\ conns[h].state = "serving"
  /\ ocl' = [ocl EXCEPT ![h] = [@ EXCEPT !.closeCalled = TRUE, !.ret = "nil"]]
  /\ pln' = [pln EXCEPT !.ln = "closed"]
  /\ Quiet
  /\ UNCHANGED <<isSelf, whois, selfUser, conns, lst, inf, pr>>

\* oneConnListener.Accept, called by the connection's HTTP server: the
\* connection the first time, io.EOF from then on.
oneConnListenerAccept(h) ==
  /\ conns[h].state = "serving"
  /\ ocl' = [ocl EXCEPT ![h] =
               IF @.conn
               THEN [@ EXCEPT !.conn = FALSE, !.taken = TRUE, !.ret = "conn"]
               ELSE [@ EXCEPT !.taken = TRUE, !.ret = "EOF"]]
  /\ Quiet
  /\ UNCHANGED <<isSelf, whois, selfUser, pln, conns, lst, inf, pr>>

\* oneConnListener.Close: return nil
oneConnListenerClose(h) ==
  /\ conns[h].state = "serving"
  /\ ocl' = [ocl EXCEPT ![h] = [@ EXCEPT !.closeCalled = TRUE, !.ret = "nil"]]
  /\ Quiet
  /\ UNCHANGED <<isSelf, whois, selfUser, pln, conns, lst, inf, pr>>

\* The network map changes: WhoIs answers differently for an address.
SetWhoIs ==
  /\ \E a \in TCPAddrs, u \in Users \cup {Unknown} :
       /\ whois[a] # u
       /\ whois' = [whois EXCEPT ![a] = u]
  /\ Quiet
  /\ UNCHANGED <<isSelf, selfUser, pln, conns, lst, inf, pr, ocl>>

\* The self node changes its user.
SetSelfUser ==
  /\ \E u \in Users : u # selfUser /\ selfUser' = u
  /\ Quiet
  /\ UNCHANGED <<isSelf, whois, pln, conns, lst, inf, pr, ocl>>

(***************************************************************************)
(* peerAPIServer.listen: the port picker.  A 32-bit word is the pair of    *)
(* its 16-bit halves <<high, low>>.                                        *)
(***************************************************************************)
ListenTries == 5

RECURSIVE BitXor(_, _)
BitXor(a, b) ==
  IF a = 0 THEN b
  ELSE IF b = 0 THEN a
  ELSE (((a % 2) + (b % 2)) % 2) + 2 * BitXor(a \div 2, b \div 2)

RECURSIVE BitOr(_, _)
BitOr(a, b) ==
  IF a = 0 THEN b
  ELSE IF b = 0 THEN a
  ELSE (IF (a % 2) = 1 \/ (b % 2) = 1 THEN 1 ELSE 0) + 2 * BitOr(a \div 2, b \div 2)

Xor32(x, y) == <<BitXor(x[1], y[1]), BitXor(x[2], y[2])>>

Shr1(x) == <<x[1] \div 2, (x[2] \div 2) + ((x[1] % 2) * 32768)>>

\* crc32.IEEE, reversed: 0xedb88320
crcPoly == <<60856, 33568>>

RECURSIVE crcBits(_, _)
crcBits(c, n) ==
  IF n = 0 THEN c
  ELSE crcBits(IF (c[2] % 2) = 1 THEN Xor32(Shr1(c), crcPoly) ELSE Shr1(c), n - 1)

RECURSIVE crcUpdate(_, _)
crcUpdate(c, data) ==
  IF data = <<>> THEN c
  ELSE crcUpdate(crcBits(Xor32(c, <<0, Head(data)>>), 8), Tail(data))

\* crc32.ChecksumIEEE
ChecksumIEEE(data) == Xor32(crcUpdate(<<65535, 65535>>, data), <<65535, 65535>>)

uint16(w) == w[2]

hashData_Cumulative(ip, try) == [ip EXCEPT ![1] = (@ + ((try * (try + 1)) \div 2)) % 256]

\* hashData := a16[len(a16)-3:]; hashData[0] += try, in uint8
hashData(ip, try) == [ip EXCEPT ![1] = (@ + try) % 256]

tryPort_NoHighBit(ip, try) == uint16(ChecksumIEEE(hashData(ip, try)))

\* tryPort := (32 << 10) | uint16(crc32.ChecksumIEEE(hashData))
tryPort(ip, try) == BitOr(32 * 1024, uint16(ChecksumIEEE(hashData(ip, try))))

\* listen up to the loop: initListenConfig can fail.
listenStart ==
  /\ lst.pc = "idle"
  /\ \E initErr \in BOOLEAN :
       lst' = IF initErr THEN [lst EXCEPT !.pc = "done", !.ret = "err"]
              ELSE [lst EXCEPT !.pc = "try"]
  /\ Quiet
  /\ UNCHANGED <<isSelf, whois, selfUser, pln, conns, inf, pr, ocl>>

\* One pass of the loop: lc.Listen on the deterministic port binds or fails.
listenTry ==
  /\ lst.pc = "try"
  /\ lst.try < ListenTries
  /\ \E bound \in BOOLEAN :
       lst' = [lst EXCEPT !.seeds = Append(@, hashData(lst.ip, lst.try)),
                          !.ports = Append(@, tryPort(lst.ip, lst.try)),
                          !.try = IF bound THEN @ ELSE @ + 1,
                          !.pc = IF bound THEN "done" ELSE "try",
                          !.ret = IF bound THEN "ln" ELSE ""]
  /\ Quiet
  /\ UNCHANGED <<isSelf, whois, selfUser, pln, conns, inf, pr, ocl>>

\* After the loop: lc.Listen on port 0, whose result is returned.
listenFallback ==
  /\ lst.pc = "try"
  /\ ~(lst.try < ListenTries)
  /\ \E bound \in BOOLEAN :
       lst' = [lst EXCEPT !.ports = Append(@, 0),
                          !.pc = "done",
                          !.ret = IF bound THEN "ln" ELSE "err"]
  /\ Quiet
  /\ UNCHANGED <<isSelf, whois, selfUser, pln, conns, inf, pr, ocl>>

(***************************************************************************)
(* incomingFile once more, one statement at a step and with its mutex:     *)
(* the handler's goroutine runs Write for every chunk of the body and then *)
(* markAndNotifyDone, while the front-end's goroutine calls PartialFile.   *)
(***************************************************************************)
Unlocked_Always(m) == TRUE

\* f.mu.Lock() returns only while no goroutine holds the mutex.
Unlocked(m) == m = ""

\* A step inside the incomingFile leaves the rest of the program alone.
InFileStep(f) ==
  /\ inf' = [f EXCEPT !.held = @ \cup {<<f.copied, f.done>>}]
  /\ resp' = NoResp
  /\ res' = NoRes
  /\ UNCHANGED <<store, isSelf, whois, selfUser, pln, conns, lst, ocl, pr>>

\* incomingFile.Write, statement by statement.  n, err = f.w.Write(p): the
\* underlying writer takes n bytes of the chunk, and with n = 0 nothing else
\* happens before Write returns; f.mu.Lock(); f.copied += int64(n) and the
\* decision to notify; at return the deferred f.mu.Unlock() runs first and
\* the deferred func() { if needNotify { b.sendFileNotify() } } last.
incomingFileWrite ==
  \/ /\ inf.wpc = "idle"
     /\ inf.rest > 0
     /\ ~inf.failed
     /\ \E len \in 1..inf.rest : \E n \in 0..len :
          InFileStep([inf EXCEPT !.rest = @ - len, !.n = n, !.forwarded = @ + n,
                                 !.failed = n < len, !.needNotify = FALSE,
                                 !.wpc = IF n > 0 THEN "lock" ELSE "idle"])
  \/ /\ inf.wpc = "lock"
     /\ Unlocked(inf.mu)
     /\ InFileStep([inf EXCEPT !.mu = "handler", !.wpc = "count"])
  \/ /\ inf.wpc = "count"
     /\ LET need == inf.lastNotify = ZeroTime \/ now - inf.lastNotify > Second
        IN InFileStep([inf EXCEPT !.copied = @ + inf.n, !.n = 0,
                                  !.lastNotify = IF need THEN now ELSE @,
                                  !.needNotify = need, !.wpc = "unlock"])
  \/ /\ inf.wpc = "unlock"
     /\ InFileStep([inf EXCEPT !.mu = "",
                               !.wpc = IF inf.needNotify THEN "notify" ELSE "idle"])
  \/ /\ inf.wpc = "notify"
     /\ InFileStep([inf EXCEPT !.nNotify = @ + 1, !.needNotify = FALSE, !.wpc = "idle",
                               !.notifiedLocked = @ \/ inf.mu = "handler"])

\* incomingFile.markAndNotifyDone, called once the whole body was written:
\* f.mu.Lock(); f.done = true; f.mu.Unlock(); b.sendFileNotify().
incomingFileMarkAndNotifyDone ==
  \/ /\ inf.wpc = "idle"
     /\ inf.rest = 0
     /\ ~inf.failed
     /\ Unlocked(inf.mu)
     /\ InFileStep([inf EXCEPT !.mu = "handler", !.wpc = "mark"])
  \/ /\ inf.wpc = "mark"
     /\ InFileStep([inf EXCEPT !.done = TRUE, !.wpc = "markUnlock"])
  \/ /\ inf.wpc = "markUnlock"
     /\ InFileStep([inf EXCEPT !.mu = "", !.wpc = "markNotify"])
  \/ /\ inf.wpc = "markNotify"
     /\ InFileStep([inf EXCEPT !.nNotify = @ + 1, !.wpc = "finished",
                               !.notifiedLocked = @ \/ inf.mu = "handler"])

\* incomingFile.PartialFile: f.mu.Lock(); Received: f.copied; Done: f.done,
\* which completes the value returned; the deferred f.mu.Unlock().
PartialFile ==
  \/ /\ inf.ppc = "idle"
     /\ Unlocked(inf.mu)
     /\ InFileStep([inf EXCEPT !.mu = "frontend", !.ppc = "received"])
  \/ /\ inf.ppc = "received"
     /\ InFileStep([inf EXCEPT !.tmp = inf.copied, !.ppc = "done"])
  \/ /\ inf.ppc = "done"
     /\ InFileStep([inf EXCEPT !.prev = inf.last,
                               !.last = [received |-> inf.tmp, done |-> inf.done],
                               !.tmp = 0, !.ppc = "unlock"])
  \/ /\ inf.ppc = "unlock"
     /\ InFileStep([inf EXCEPT !.mu = "", !.ppc = "idle"])

(***************************************************************************)
(* Package prober: Run, the loop of each probe, and the function Run       *)
(* returns.  Run and unregister hold p.mu from beginning to end and the    *)
(* returned function holds it for its read of the table, so each of them   *)
(* is one step.                                                            *)
(***************************************************************************)
\* A step of the prober leaves the rest of the program alone; after a panic
\* there are no steps.
ProberStep(q) ==
  /\ ~pr.panicked
  /\ pr' = q
  /\ resp' = NoResp
  /\ res' = NoRes
  /\ UNCHANGED <<store, isSelf, whois, selfUser, pln, conns, lst, inf, ocl>>

\* Prober.Run: registerLocked panics on a name that is in the table;
\* otherwise it makes the channel, enters it and starts the loop.
Run ==
  \E name \in ProbeNames :
    IF pr.probes[name] # 0
    THEN ProberStep([pr EXCEPT !.panicked = TRUE])
    ELSE /\ pr.nRuns < MaxRuns
         /\ LET g == pr.nRuns + 1
            IN ProberStep([pr EXCEPT !.probes[name] = g, !.nRuns = g,
                                     !.name[g] = name, !.loop[g] = "select"])

\* Prober.probeLoop: case <-tick.C starts runProbe, which returns when the
\* probe function does.
probeLoop(g) ==
  \/ /\ pr.loop[g] = "select"
     /\ ProberStep([pr EXCEPT !.loop[g] = "probe"])
  \/ /\ pr.loop[g] = "probe"
     /\ ProberStep([pr EXCEPT !.loop[g] = "select"])

\* Prober.probeLoop: case <-ctx.Done() returns, and the deferred
\* p.unregister(name) closes the channel in the table and deletes the entry.
unregister(g) ==
  /\ pr.loop[g] = "select"
  /\ g \in pr.cancelled
  /\ pr.probes[pr.name[g]] # 0
  /\ ProberStep([pr EXCEPT !.closed = @ \cup {pr.probes[pr.name[g]]},
                           !.probes[pr.name[g]] = 0,
                           !.loop[g] = "exited"])

\* The function Run returned for its g-th call, invoked by caller c:
\* stopped := p.probes[name] under the mutex; cancel(); <-stopped, which
\* returns once the channel is closed and never on a nil channel.
CancelFunc(c) ==
  \/ /\ pr.call[c].pc \in {"idle", "returned"}
     /\ \E g \in 1..pr.nRuns :
          ProberStep([pr EXCEPT !.call[c] = [pc |-> "cancel", g |-> g,
                                            stopped |-> pr.probes[pr.name[g]]]])
  \/ /\ pr.call[c].pc = "cancel"
     /\ ProberStep([pr EXCEPT !.cancelled = @ \cup {pr.call[c].g},
                              !.call[c].pc = "wait"])
  \/ /\ pr.call[c].pc = "wait"
     /\ pr.call[c].stopped \in pr.closed
     /\ ProberStep([pr EXCEPT !.call[c].pc = "returned"])

(***************************************************************************)
(* Time passes.                                                            *)
(***************************************************************************)
Tick(max) ==
  /\ now < max
  /\ now' = now + 1
  /\ resp' = NoResp
  /\ res' = NoRes
  /\ UNCHANGED <<config, knownEmpty, dir, hs, incomingFiles, fe>>

Next ==
  \/ \E h \in Handlers : ServeHTTP(h, CoreRequests)
  \/ \E h \in Handlers : CopyWrite(h)
  \/ \E h \in Handlers : CopyFail(h)
  \/ \E h \in Handlers : CloseFile(h)
  \/ \E h \in Handlers : FinalNotify(h)
  \/ hasFilesWaiting
  \/ hasFilesWaitingSetEmpty
  \/ WaitingFiles
  \/ DeleteFile
  \/ DeleteRetry
  \/ OpenFile

Spec == Init /\ [][Next]_vars

(***************************************************************************)
(* One upload and the clock: the Write calls of an upload at arbitrary     *)
(* times.  It starts where handlePeerPut has created the file and          *)
(* registered the incomingFile.                                            *)
(***************************************************************************)
WriteBody == [i \in 1..WriteBodyLen |-> 1]

InitWrite ==
  /\ rootDir = "/var/files"
  /\ directFileMode \in BOOLEAN
  /\ goos = "linux"
  /\ knownEmpty = FALSE
  /\ isSelf = [h \in Handlers |-> TRUE]
  /\ \E r \in { Request("PUT", putPrefix \o nameA, cl, WriteBody) : cl \in {-1, WriteBodyLen} } :
       /\ dir = [EmptyDir EXCEPT ![dstFile(r)] = osCreate(@)]
       /\ hs = [h \in Handlers |->
                  IF h = 1
                  THEN [Ready EXCEPT !.req = r, !.cap = TRUE, !.dst = dstFile(r),
                                     !.fdOpen = TRUE, !.linked = TRUE, !.pc = "copy",
                                     !.hasInFile = TRUE, !.size = r.cl, !.rest = r.body]
                  ELSE Ready]
  /\ incomingFiles = {1}
  /\ fe = FeIdle
  /\ resp = NoResp
  /\ res = NoRes
  /\ now = 0
  /\ Established

NextWrite ==
  \/ CopyWrite(1)
  \/ Tick(MaxWriteTime)

WriteSpec == InitWrite /\ [][NextWrite]_vars

(***************************************************************************)
(* Uploads to a server in direct mode, statement by statement, while the   *)
(* front-end lists the waiting files.                                      *)
(***************************************************************************)
InitDirect ==
  /\ Init
  /\ rootDir # ""
  /\ directFileMode

NextDirect ==
  \/ \E h \in Handlers : ServeHTTP(h, UploadRequests)
  \/ \E h \in Handlers : CopyWrite(h)
  \/ \E h \in Handlers : CopyFail(h)
  \/ \E h \in Handlers : CloseOnly(h)
  \/ \E h \in Handlers : MarkDone(h)
  \/ \E h \in Handlers : WriteOk(h)
  \/ \E h \in Handlers : FinalNotify(h)
  \/ WaitingFiles

DirectSpec == InitDirect /\ [][NextDirect]_vars

(***************************************************************************)
(* The filename gate on its own: diskPath applied to every name of up to   *)
(* MaxNameLen runes over runes of each class, and to names around the      *)
(* length limit.                                                           *)
(***************************************************************************)
GateRunes == {"a", ".", "/", " ", "e'", "0xFF", "TAB", ":"}

LongNames ==
  { [i \in 1..MaxFilenameLen |-> "a"],
    [i \in 1..(MaxFilenameLen + 1) |-> "a"],
    [i \in 1..(MaxFilenameLen - 1) |-> "a"] \o <<"e'">>,
    [i \in 1..(MaxFilenameLen - 2) |-> "a"] \o <<"e'">> }

GateNames ==
  UNION { [1..k -> GateRunes] : k \in 0..MaxNameLen }
  \cup LongNames
  \cup { partialSuffix, nameA \o partialSuffix, nameA \o partialSuffix \o nameA }

InitGate ==
  /\ rootDir = "/var/files"
  /\ directFileMode = FALSE
  /\ goos = "linux"
  /\ knownEmpty = FALSE
  /\ dir = EmptyDir
  /\ isSelf = [h \in Handlers |-> TRUE]
  /\ hs = [h \in Handlers |-> Ready]
  /\ incomingFiles = {}
  /\ \E n \in GateNames : fe = [FeIdle EXCEPT !.name = n]
  /\ resp = NoResp
  /\ res = NoRes
  /\ now = 0
  /\ Established

NextGate == diskPath

GateSpec == InitGate /\ [][NextGate]_vars

(***************************************************************************)
(* The upload endpoint with every kind of request, accepted or rejected.   *)
(***************************************************************************)
NextRequest ==
  \/ \E h \in Handlers : ServeHTTP(h, Requests)
  \/ \E h \in Handlers : CopyWrite(h)
  \/ \E h \in Handlers : CopyFail(h)
  \/ \E h \in Handlers : CloseFile(h)
  \/ \E h \in Handlers : FinalNotify(h)

InitRequest ==
  /\ Init
  /\ goos = "linux"
  /\ dir = EmptyDir

RequestSpec == InitRequest /\ [][NextRequest]_vars

(***************************************************************************)
(* The port picker on its own, for addresses whose first seed byte does    *)
(* and does not wrap around, every bind failing or succeeding.             *)
(***************************************************************************)
ListenIPs == { <<b0, b1, b2>> : b0 \in {1, 254, 255}, b1 \in {0, 2}, b2 \in {3, 200} }

InitListen ==
  /\ rootDir = "/var/files"
  /\ directFileMode = FALSE
  /\ goos = "linux"
  /\ knownEmpty = FALSE
  /\ dir = EmptyDir
  /\ isSelf = [h \in Handlers |-> FALSE]
  /\ hs = [h \in Handlers |-> Ready]
  /\ incomingFiles = {}
  /\ fe = FeIdle
  /\ resp = NoResp
  /\ res = NoRes
  /\ now = 0
  /\ whois = [a \in TCPAddrs |-> Unknown]
  /\ selfUser = "alice"
  /\ conns = [h \in Handlers |-> NoConn]
  /\ pln = ListenerOf("nil", "idle")
  /\ \E ip \in ListenIPs : lst = [NoListen EXCEPT !.ip = ip]
  /\ inf = InFile(0)
  /\ ocl = [h \in Handlers |-> OneConn]
  /\ pr = NewProber

NextListen ==
  \/ listenStart
  \/ listenTry
  \/ listenFallback

ListenSpec == InitListen /\ [][NextListen]_vars

(***************************************************************************)
(* A listener from before serve starts, the connections it accepts and     *)
(* the requests on them, while the network map changes.                    *)
(***************************************************************************)
ServeRequests ==
  { Request("GET", putPrefix \o nameA, 0, <<>>), Request("GET", <<"/">>, 0, <<>>) }

InitServe ==
  /\ rootDir = "/var/files"
  /\ directFileMode = FALSE
  /\ goos = "linux"
  /\ knownEmpty = FALSE
  /\ dir = EmptyDir
  /\ isSelf = [h \in Handlers |-> FALSE]
  /\ hs = [h \in Handlers |-> Ready]
  /\ incomingFiles = {}
  /\ fe = FeIdle
  /\ resp = NoResp
  /\ res = NoRes
  /\ now = 0
  /\ whois \in [TCPAddrs -> Users \cup {Unknown}]
  /\ selfUser \in Users
  /\ conns = [h \in Handlers |-> NoConn]
  /\ pln \in {ListenerOf("nil", "idle"), ListenerOf("open", "idle")}
  /\ lst = NoListen
  /\ inf = InFile(0)
  /\ ocl = [h \in Handlers |-> OneConn]
  /\ pr = NewProber

NextServe ==
  \/ serveStart
  \/ Accept
  \/ Dispatch
  \/ Close
  \/ SetWhoIs
  \/ SetSelfUser
  \/ \E h \in Handlers : ServeHTTP(h, ServeRequests)

ServeSpec == InitServe /\ [][NextServe]_vars

(***************************************************************************)
(* One upload in progress whose incomingFile the front-end inspects.       *)
(***************************************************************************)
InitInFile ==
  /\ rootDir = "/var/files"
  /\ directFileMode \in BOOLEAN
  /\ goos = "linux"
  /\ knownEmpty = FALSE
  /\ dir = EmptyDir
  /\ isSelf = [h \in Handlers |-> TRUE]
  /\ hs = [h \in Handlers |-> Ready]
  /\ incomingFiles = {}
  /\ fe = FeIdle
  /\ resp = NoResp
  /\ res = NoRes
  /\ now = 0
  /\ whois = [a \in TCPAddrs |-> "alice"]
  /\ selfUser = "alice"
  /\ conns = [h \in Handlers |-> Serving("100.64.0.1:1", "alice")]
  /\ pln = ListenerOf("open", "accept")
  /\ lst = NoListen
  /\ inf = InFile(WriteBodyLen)
  /\ ocl = [h \in Handlers |-> OneConn]
  /\ pr = NewProber

NextInFile ==
  \/ incomingFileWrite
  \/ incomingFileMarkAndNotifyDone
  \/ PartialFile
  \/ Tick(MaxWriteTime)

InFileSpec == InitInFile /\ [][NextInFile]_vars

(***************************************************************************)
(* The accept loop and the HTTP servers of the connections it handed over. *)
(***************************************************************************)
NextOneConn ==
  \/ serveStart
  \/ Accept
  \/ Dispatch
  \/ \E h \in Handlers : oneConnListenerAccept(h)
  \/ \E h \in Handlers : oneConnListenerClose(h)

OneConnSpec == InitServe /\ [][NextOneConn]_vars

(***************************************************************************)
(* The accept loop and Close, with the scheduling the program has: an      *)
(* Accept on a closed listener returns, and the loop's goroutine finishes  *)
(* the iteration it is in.                                                 *)
(***************************************************************************)
NextServeLive ==
  \/ serveStart
  \/ Accept
  \/ Dispatch
  \/ Close
  \/ \E h \in Handlers : ServeHTTP(h, ServeRequests)

ServeLiveSpec ==
  /\ InitServe
  /\ [][NextServeLive]_vars
  /\ WF_vars(Accept /\ pln.ln = "closed")
  /\ WF_vars(Dispatch)

(***************************************************************************)
(* DeleteFile while time passes: the retry loop sleeps in bo.BackOff and   *)
(* goes on, so both a retry and the clock get their turn.                  *)
(***************************************************************************)
InitDelete ==
  /\ rootDir = "/var/files"
  /\ directFileMode = FALSE
  /\ goos \in {"linux", "windows"}
  /\ knownEmpty = FALSE
  /\ dir \in InitDirs \cup {[EmptyDir EXCEPT ![nameA] = FileEnt(<<1>>), ![nameSub] = DirEnt]}
  /\ isSelf = [h \in Handlers |-> TRUE]
  /\ hs = [h \in Handlers |-> Ready]
  /\ incomingFiles = {}
  /\ fe = FeIdle
  /\ resp = NoResp
  /\ res = NoRes
  /\ now = 0
  /\ Established

\* The clock runs while calls can begin and while a DeleteFile waits, until
\* its 10 seconds are over.
DeleteClock ==
  Tick(IF fe.pc = "backoff" THEN fe.t0 + DeleteRetrySeconds * Second
       ELSE MaxDeleteStart)

\* The front-end begins its calls within the first MaxDeleteStart ticks.
NextDelete ==
  \/ (now <= MaxDeleteStart /\ DeleteFile)
  \/ DeleteRetry
  \/ DeleteClock

DeleteSpec ==
  /\ InitDelete
  /\ [][NextDelete]_vars
  /\ WF_vars(DeleteRetry)
  /\ WF_vars(DeleteClock)

(***************************************************************************)
(* The prober with the scheduling the program has: a probe function        *)
(* returns, a select whose context is done takes that case sooner or       *)
(* later, and a call of the returned function goes on once begun.          *)
(***************************************************************************)
NextProber ==
  \/ Run
  \/ \E g \in 1..MaxRuns : probeLoop(g)
  \/ \E g \in 1..MaxRuns : unregister(g)
  \/ \E c \in Callers : CancelFunc(c)

ProberSpec ==
  /\ InitListen
  /\ [][NextProber]_vars
  /\ \A g \in 1..MaxRuns : WF_vars(probeLoop(g)) /\ SF_vars(unregister(g))
  /\ \A c \in Callers : WF_vars(CancelFunc(c) /\ pr.call[c].pc \in {"cancel", "wait"})

TypeOK ==
  /\ knownEmpty \in BOOLEAN
  /\ \A n \in DiskNames : dir[n].kind \in {"none", "dir", "file"}
  /\ \A h \in Handlers : hs[h].pc \in {"ready", "copy", "copyErr", "close", "closed", "marked", "notify"}
  /\ incomingFiles \subseteq Handlers
  /\ now \in Nat
  /\ selfUser \in Users
  /\ \A a \in TCPAddrs : whois[a] \in Users \cup {Unknown}
  /\ \A h \in Handlers : conns[h].state \in {"none", "accepted", "closed", "serving"}
  /\ pln.ln \in {"nil", "open", "closed"}
  /\ pln.pc \in {"idle", "accept", "dispatch", "exited"}
  /\ lst.pc \in {"idle", "try", "done"}
  /\ pr.nRuns \in 0..MaxRuns
  /\ \A g \in 1..MaxRuns : pr.loop[g] \in {"none", "select", "probe", "exited"}
  /\ \A c \in Callers : pr.call[c].pc \in {"idle", "cancel", "wait", "returned"}

(***************************************************************************)
(* Properties.                                                             *)
(***************************************************************************)
\* The base name a request to the upload endpoint asks for.
PutName(r) == PathUnescape(TrimPrefix(EscapedPath(r), putPrefix))

IsPut(r) == HasPrefix(urlPath(r), putPrefix)

\* The handler that returned in the last step failed at create, copy or close.
FailedPut ==
  /\ resp.h # 0
  /\ resp.f.status = 500
  /\ resp.f.msg \in {"create error", "copy error", "close error"}

\* The handler that returned in the last step stored an upload.
PutOk ==
  /\ resp.h # 0
  /\ resp.f.status = 200
  /\ resp.f.msg = "{}"

\* C1: a request to the upload endpoint on a connection whose handler has
\* isSelf = false is answered 403 whatever its method, name, body, sharing
\* capability, root and mode; the handler never gets as far as a file or an
\* upload: the directory, the registered uploads and knownEmpty are as
\* before and no notification is sent.
C1_NotOwnerForbidden ==
  [][\A h \in Handlers : ~isSelf[h] =>
        /\ hs'[h] = Ready
        /\ h \notin incomingFiles'
        /\ (resp'.h = h /\ IsPut(resp'.f.req)) =>
             /\ resp'.f.status = 403
             /\ resp'.f.nProgress = 0 /\ resp'.f.nDone = 0 /\ resp'.f.nFinal = 0
             /\ ~resp'.f.wroteKnownEmpty
             /\ dir' = dir
             /\ hs' = hs
             /\ incomingFiles' = incomingFiles
             /\ knownEmpty' = knownEmpty]_vars

C1_Witness ==
  /\ resp.h # 0
  /\ ~isSelf[resp.h]
  /\ resp.f.status = 403
  /\ resp.f.req.method = "PUT"
  /\ resp.f.req.cl # 0
  /\ resp.f.cap
  /\ rootDir # ""

\* C2: when a PUT that failed at create, copy or close returns, no file
\* exists at its destination path, whatever the directory held before.
C2_NoFileAfterFailedPut ==
  FailedPut => dir[resp.f.dst].kind = "none"

\* C3 as stated: a PUT that fails has made no sendFileNotify call at all,
\* progress, done or final, and has not written knownEmpty.
C3_NoNotifyAtAll ==
  FailedPut =>
    /\ resp.f.nProgress = 0
    /\ resp.f.nDone = 0
    /\ resp.f.nFinal = 0
    /\ ~resp.f.wroteKnownEmpty

\* C3 as amended: a PUT that fails has sent no done and no final
\* notification and has not written knownEmpty; the only notifications it
\* can have sent are progress notifications for body bytes written before
\* the failure, and none when no byte was written.
C3_NoDoneNoFinalNotify ==
  FailedPut =>
    /\ resp.f.nDone = 0
    /\ resp.f.nFinal = 0
    /\ ~resp.f.done
    /\ ~resp.f.wroteKnownEmpty
    /\ (resp.f.copied = 0 => resp.f.nProgress = 0)

C3_Witness ==
  /\ FailedPut
  /\ resp.f.msg = "copy error"
  /\ resp.f.copied > 0
  /\ resp.f.nProgress = 1

\* C4: when a PUT with a non-empty body returns 200, knownEmpty is false,
\* for every interleaving with other PUTs, DeleteFile and hasFilesWaiting.
C4_KnownEmptyClearedAtReturn ==
  (PutOk /\ resp.f.copied > 0) => knownEmpty = FALSE

C6_RoundTrip ==
  [][(/\ PutOk
      /\ ~resp.f.overlap
      /\ rootDir # ""
      /\ res'.op = "OpenFile"
      /\ res'.name = PutName(resp.f.req)
      /\ res'.ret # "stat error")
     => (/\ res'.ret = "ok"
         /\ res'.data = resp.f.req.body
         /\ res'.size = Len(resp.f.req.body))]_vars

\* C6 as amended: the same on a server that is not in direct mode.
C6_RoundTripStaged ==
  [][(/\ PutOk
      /\ ~resp.f.overlap
      /\ rootDir # ""
      /\ ~directFileMode
      /\ res'.op = "OpenFile"
      /\ res'.name = PutName(resp.f.req)
      /\ res'.ret # "stat error")
     => (/\ res'.ret = "ok"
         /\ res'.data = resp.f.req.body
         /\ res'.size = Len(resp.f.req.body))]_vars

C6_Witness ==
  /\ res.op = "OpenFile"
  /\ res.name = nameA
  /\ res.ret = "ok"
  /\ res.data = <<2>>
  /\ res.size = 1
  /\ \A h \in Handlers : hs[h].pc = "ready"

\* C7: with the root unset or in direct mode, hasFilesWaiting returns false
\* whatever the directory holds, without opening the directory, without
\* scanning it and without changing knownEmpty.
C7_NoScanWhenDisabled ==
  [][(rootDir = "" \/ directFileMode) =>
        /\ fe'.pc # "scanned"
        /\ res'.op = "hasFilesWaiting" =>
             /\ res'.ret = "false"
             /\ ~res'.fsAccess
             /\ knownEmpty' = knownEmpty]_vars

C7_Witness ==
  /\ res.op = "hasFilesWaiting"
  /\ res.ret = "false"
  /\ directFileMode
  /\ rootDir # ""
  /\ \E n \in DiskNames : dir[n].kind = "file" /\ ~HasSuffix(n, partialSuffix)

\* C8 as stated: DeleteFile(n) for a name with no file in the directory
\* returns success and leaves the directory and knownEmpty unchanged.
C8_DeleteMissingSucceeds ==
  [][(/\ fe.pc = "idle"
      /\ res'.op = "DeleteFile"
      /\ res'.name \in DiskNames
      /\ dir[res'.name].kind = "none")
     => (/\ res'.ret = "ok"
         /\ dir' = dir
         /\ knownEmpty' = knownEmpty)]_vars

\* C8 as amended: on a server with a configured root that is not in direct
\* mode, DeleteFile(n) for a name the gate accepts and with no file in the
\* directory returns success and leaves the directory, the uploads and
\* knownEmpty unchanged; after a successful delete of n no file is at n, so
\* that deleting n again succeeds as well.
C8_DeleteMissingSucceedsStaged ==
  /\ [](res.op = "DeleteFile" /\ res.ret = "ok" => dir[res.name].kind = "none")
  /\ [][(/\ fe.pc = "idle"
         /\ res'.op = "DeleteFile"
         /\ rootDir # "" /\ ~directFileMode /\ diskPathOk(res'.name)
         /\ dir[res'.name].kind = "none")
        => (/\ res'.ret = "ok"
            /\ dir' = dir
            /\ hs' = hs
            /\ knownEmpty' = knownEmpty)]_vars

C8_Witness ==
  /\ res.op = "DeleteFile"
  /\ res.name = nameA
  /\ res.ret = "ok"
  /\ rootDir # ""
  /\ ~directFileMode
  /\ dir = [EmptyDir EXCEPT ![nameB] = FileEnt(<<2>>)]

\* C9: DeleteFile and OpenFile check their preconditions in a fixed order:
\* an unset root gives the not-configured error, else direct mode gives the
\* not-allowed error, else a name the gate rejects gives the bad-filename
\* error; a failing check touches neither the filesystem nor any state.
C9_PreconditionOrder ==
  [][(fe.pc = "idle" /\ res'.op \in {"DeleteFile", "OpenFile"}) =>
       LET n == res'.name
           notAllowed == IF res'.op = "DeleteFile"
                         THEN "deletes not allowed in direct mode"
                         ELSE "opens not allowed in direct mode"
       IN /\ rootDir = "" => res'.ret = "peerapi disabled; no storage configured"
          /\ (rootDir # "" /\ directFileMode) => res'.ret = notAllowed
          /\ (rootDir # "" /\ ~directFileMode /\ ~diskPathOk(n)) => res'.ret = "bad filename"
          /\ (rootDir = "" \/ directFileMode \/ ~diskPathOk(n)) =>
               /\ ~res'.fsAccess
               /\ dir' = dir
               /\ hs' = hs
               /\ fe' = fe
               /\ incomingFiles' = incomingFiles
               /\ knownEmpty' = knownEmpty]_vars

C9_Witness ==
  /\ res.op = "DeleteFile"
  /\ res.name = <<".", ".">>
  /\ rootDir # ""
  /\ directFileMode
  /\ res.ret = "deletes not allowed in direct mode"

CeilSeconds(d) == (d + Second - 1) \div Second

\* C10: an upload's Write calls issue at most ceil(d) + 1 progress
\* notifications, d being the seconds between its first and its last Write;
\* a progress notification comes more than a second after the previous one
\* of the same upload; the first Write that writes a byte notifies.
C10_ProgressRate ==
  /\ [](\A h \in Handlers : hs[h].firstWrite # ZeroTime =>
          hs[h].nProgress <= CeilSeconds(hs[h].lastWrite - hs[h].firstWrite) + 1)
  /\ [][\A h \in Handlers :
          /\ (hs[h].nProgress > 0 /\ hs'[h].nProgress > hs[h].nProgress) =>
               now - hs[h].lastNotify > Second
          /\ (hs[h].pc = "copy" /\ hs[h].copied = 0 /\ hs'[h].copied > 0) =>
               hs'[h].nProgress = hs[h].nProgress + 1]_vars

C10_Witness ==
  /\ hs[1].nProgress = 2
  /\ hs[1].lastWrite - hs[1].firstWrite = Second + 1
  /\ hs[1].lastNotify = hs[1].lastWrite

\* C11: in direct mode an upload changes no directory entry other than its
\* <name>.partial, so the final name is never created; an upload's done flag
\* is set, with one done notification, only once its file has been closed
\* without error, and it is set before the 200 response of an upload with a
\* body is written; every WaitingFiles call made before, during or after an
\* upload returns the empty list.
C11_DirectUpload ==
  /\ [][directFileMode =>
          \A n \in DiskNames :
            dir'[n] # dir[n] =>
              \E h \in Handlers :
                /\ n = PutName(hs'[h].req) \o partialSuffix \/ n = PutName(hs[h].req) \o partialSuffix
                /\ n # PutName(hs'[h].req) /\ n # PutName(hs[h].req)]_vars
  /\ [](directFileMode =>
          /\ \A h \in Handlers :
               /\ hs[h].done => (/\ ~hs[h].fdOpen
                                 /\ hs[h].pc \in {"marked", "notify"}
                                 /\ hs[h].nDone = 1)
               /\ (hs[h].status = 200 /\ hs[h].hasInFile) => hs[h].done
          /\ FailedPut => (~resp.f.done /\ resp.f.nDone = 0)
          /\ (PutOk /\ resp.f.hasInFile) => (resp.f.done /\ resp.f.nDone = 1)
          /\ (res.op = "WaitingFiles" /\ rootDir # "") =>
               (res.ret = "ok" /\ res.files = <<>>))

C11_Witness ==
  /\ directFileMode
  /\ res.op = "WaitingFiles"
  /\ res.files = <<>>
  /\ dir[nameA].kind = "none"
  /\ \E h \in Handlers :
       /\ hs[h].pc = "marked"
       /\ hs[h].done
       /\ hs[h].status = 0
       /\ hs[h].copied > 0
       /\ dir[nameA \o partialSuffix] = FileEnt(hs[h].req.body)

\* C12: serve creates a handler only for an accepted connection whose remote
\* address is a well-formed TCP address that WhoIs resolves; a connection
\* with any other address is closed, gets no handler, stays closed and has
\* no request served on it, and the loop goes back to Accept.
C12_HandlerOnlyForKnownPeer ==
  /\ [][\A c \in Handlers :
          /\ (conns'[c].state = "serving" /\ conns[c].state # "serving") =>
               /\ conns[c].state = "accepted"
               /\ conns[c].addr \in TCPAddrs
               /\ whois[conns[c].addr] \in Users
          /\ (/\ conns[c].state = "accepted"
              /\ conns'[c] # conns[c]
              /\ (conns[c].addr \notin TCPAddrs \/ whois[conns[c].addr] = Unknown)) =>
               /\ conns'[c].state = "closed"
               /\ isSelf' = isSelf
               /\ hs' = hs
               /\ pln'.pc = "accept"
               /\ pln'.ln = pln.ln
          /\ conns[c].state = "closed" => conns'[c] = conns[c]]_vars
  /\ [](\A c \in Handlers :
          conns[c].state # "serving" => (hs[c] = Ready /\ resp.h # c))

C12_Witness ==
  /\ conns[1].state = "closed"
  /\ conns[1].addr = "unix"
  /\ conns[2].state = "serving"
  /\ resp.h = 2

\* C13 as stated: WhoIs has been asked exactly once for every connection
\* that serve accepted and dealt with.
C13_WhoIsOncePerAccepted ==
  \A c \in Handlers : conns[c].state \in {"closed", "serving"} => conns[c].nWhoIs = 1

\* C13 as amended: WhoIs is asked exactly once for every accepted connection
\* with a well-formed TCP address, before any request on it is handled, and
\* not at all for one whose address is not TCP or malformed; the handler's
\* user, remote address and isSelf (self user = peer user when the handler was
\* created) are not written afterwards, whatever happens to the WhoIs
\* mapping and the self user, and they decide every request on the connection.
C13_IdentityFixedAtAccept ==
  /\ [](\A c \in Handlers :
          /\ conns[c].state = "serving" => conns[c].nWhoIs = 1
          /\ (conns[c].state = "closed" /\ conns[c].addr \in TCPAddrs) => conns[c].nWhoIs = 1
          /\ conns[c].addr \notin TCPAddrs => conns[c].nWhoIs = 0
          /\ resp.h = c => (conns[c].state = "serving" /\ conns[c].nWhoIs = 1))
  /\ [][\A c \in Handlers :
          /\ (conns'[c].state = "serving" /\ conns[c].state # "serving") =>
               /\ conns'[c].addr = conns[c].addr
               /\ conns'[c].user = whois[conns[c].addr]
               /\ isSelf'[c] = (selfUser = whois[conns[c].addr])
          /\ conns[c].state = "serving" =>
               (conns'[c] = conns[c] /\ isSelf'[c] = isSelf[c])
          /\ (resp'.h = c /\ IsPut(resp'.f.req)) =>
               ((resp'.f.status = 403 /\ resp'.f.msg = "not owner") <=> ~isSelf[c])]_vars

C13_Witness ==
  /\ conns[1].state = "serving"
  /\ conns[1].user = "alice"
  /\ isSelf[1]
  /\ selfUser = "bob"
  /\ whois[conns[1].addr] = Unknown
  /\ resp.h = 1
  /\ IsPut(resp.f.req)
  /\ resp.f.status = 405

\* C16: once Close has returned, serve is not running: it is neither in
\* Accept nor dealing with a connection, and no connection gets a handler.
C16_CloseWaitsForServe ==
  /\ [](pln.closeReturned => pln.pc \notin {"accept", "dispatch"})
  /\ [][pln.closeReturned =>
          \A c \in Handlers : conns'[c].state = "serving" => conns[c].state = "serving"]_vars

\* C14: diskPath accepts a base name if and only if the name is valid UTF-8,
\* has no leading or trailing whitespace, is 1 to 255 bytes long, is
\* unchanged by path canonicalization, is neither "." nor "..", does not end
\* in ".partial", and consists of printable runes none of which is one of
\* / \ : * " < > |; it decides so without access to the filesystem.
C14_GateAcceptsIff ==
  res.op = "diskPath" =>
    LET n == res.name IN
    /\ ~res.fsAccess
    /\ (res.ret = "ok") <=>
         /\ \A i \in 1..Len(n) : n[i] \notin InvalidBytes
         /\ n # <<>> => (n[1] \notin WhiteSpace /\ n[Len(n)] \notin WhiteSpace)
         /\ ByteLen(n) >= 1
         /\ ByteLen(n) <= 255
         /\ pathClean(n) = n
         /\ n # <<".">>
         /\ n # <<".", ".">>
         /\ ~HasSuffix(n, partialSuffix)
         /\ \A i \in 1..Len(n) :
              /\ n[i] \notin NonPrintable
              /\ n[i] \notin {"/", "\\", ":", "*", "\"", "<", ">", "|"}

C14_Witness ==
  /\ res.op = "diskPath"
  /\ res.ret = "ok"
  /\ ByteLen(res.name) = 255
  /\ Len(res.name) = 254

\* C15 as stated: a PUT of /v0/put/a%2Fb from an owner peer, with sharing
\* enabled and the root set, is answered 400 "directories not supported"
\* and writes nothing.
C15_EncodedSlashDirectories ==
  [][(/\ resp'.h # 0
      /\ isSelf[resp'.h]
      /\ resp'.f.cap
      /\ rootDir # ""
      /\ resp'.f.req.method = "PUT"
      /\ EscapedPath(resp'.f.req) = putPrefix \o <<"a", "%", "2", "F", "b">>)
     => (/\ resp'.f.status = 400
         /\ resp'.f.msg = "directories not supported"
         /\ dir' = dir)]_vars

\* C15 as amended: that PUT is answered 400 "bad filename": its escaped
\* name holds no slash, and the gate rejects the decoded name a/b; nothing
\* is written to the directory and no upload is registered.
C15_EncodedSlashBadFilename ==
  [][(/\ resp'.h # 0
      /\ isSelf[resp'.h]
      /\ resp'.f.cap
      /\ rootDir # ""
      /\ resp'.f.req.method = "PUT"
      /\ EscapedPath(resp'.f.req) = putPrefix \o <<"a", "%", "2", "F", "b">>)
     => (/\ resp'.f.status = 400
         /\ resp'.f.msg = "bad filename"
         /\ PutName(resp'.f.req) = <<"a", "/", "b">>
         /\ dir' = dir
         /\ hs' = hs
         /\ incomingFiles' = incomingFiles
         /\ knownEmpty' = knownEmpty)]_vars

C15_Witness ==
  /\ resp.h # 0
  /\ isSelf[resp.h]
  /\ resp.f.cap
  /\ rootDir # ""
  /\ resp.f.req.method = "PUT"
  /\ EscapedPath(resp.f.req) = putPrefix \o <<"a", "%", "2", "F", "b">>
  /\ resp.f.status = 400
  /\ resp.f.msg = "bad filename"

C20_ZeroLengthPut ==
  /\ [](\A h \in Handlers :
          hs[h].pc # "ready" =>
            /\ hs[h].req.cl = 0 =>
                 /\ ~hs[h].hasInFile
                 /\ h \notin incomingFiles
                 /\ hs[h].nProgress = 0 /\ hs[h].nDone = 0 /\ ~hs[h].done
            /\ hs[h].req.cl # 0 =>
                 /\ hs[h].hasInFile
                 /\ h \in incomingFiles
                 /\ hs[h].size = hs[h].req.cl
                 /\ hs[h].size # 0)
  /\ []((PutOk /\ resp.f.req.cl = 0) =>
          /\ ~resp.f.hasInFile
          /\ resp.f.nProgress = 0 /\ resp.f.nDone = 0 /\ ~resp.f.done
          /\ resp.f.nFinal = 1
          /\ resp.f.wroteKnownEmpty)
  /\ [][\A h \in Handlers :
          /\ (hs[h].pc = "ready" /\ hs'[h].pc # "ready" /\ hs'[h].req.cl = 0) =>
               (dir'[hs'[h].dst] = FileEnt(<<>>) /\ hs'[h].pc = "close")
          /\ (hs[h].pc = "close" /\ hs'[h].pc = "notify") =>
               knownEmpty' = FALSE]_vars

C20_Witness ==
  /\ PutOk
  /\ resp.f.req.cl = 0
  /\ directFileMode
  /\ resp.f.nFinal = 1
  /\ dir[nameA \o partialSuffix] = FileEnt(<<>>)
  /\ dir[nameSub] = DirEnt
  /\ \A h \in Handlers : hs[h].pc = "ready"

\* C17: every deterministic port listen tries is 0x8000 | (CRC32_IEEE(seed)
\* & 0xFFFF) for the seed of that attempt, in 16 bits, and so lies in
\* 32768..65535, whatever the address and the retry index.
C17_PortRange ==
  \A k \in 1..Len(lst.seeds) :
    LET low == ChecksumIEEE(lst.seeds[k])[2] IN
    /\ lst.ports[k] \in 32768..65535
    /\ (lst.ports[k] % 32768) = (low % 32768)
    /\ lst.ports[k] = IF low >= 32768 THEN low ELSE low + 32768

C17_Witness ==
  /\ lst.ip = <<1, 2, 3>>
  /\ Len(lst.seeds) = 5
  /\ lst.seeds[1] = <<1, 2, 3>>
  /\ lst.ports[1] = 32797
  /\ \E k \in 1..5 : ChecksumIEEE(lst.seeds[k])[2] < 32768
  /\ \E k \in 1..5 : ChecksumIEEE(lst.seeds[k])[2] >= 32768

\* C18: listen makes at most five deterministic attempts, the k-th (from 0)
\* with the seed ((b0 + k) mod 256, b1, b2) of the address's last three
\* bytes b0 b1 b2; the attempt that binds is the last one and its listener
\* is returned; only when all five failed is there one attempt on port 0,
\* whose result, listener or error, is returned; nothing is tried after
\* listen has returned.
C18_ListenAttempts ==
  /\ [](/\ Len(lst.seeds) <= 5
        /\ \A k \in 1..Len(lst.seeds) :
             lst.seeds[k] = <<(lst.ip[1] + (k - 1)) % 256, lst.ip[2], lst.ip[3]>>
        /\ Len(lst.ports) \in {Len(lst.seeds), Len(lst.seeds) + 1}
        /\ Len(lst.ports) = Len(lst.seeds) + 1 =>
             (Len(lst.seeds) = 5 /\ lst.try = 5 /\ lst.ports[6] = 0 /\ lst.pc = "done")
        /\ lst.pc = "try" => (lst.try = Len(lst.seeds) /\ Len(lst.ports) = Len(lst.seeds))
        /\ (lst.pc = "done" /\ Len(lst.ports) = Len(lst.seeds) /\ lst.ports # <<>>) =>
             (lst.ret = "ln" /\ lst.try = Len(lst.seeds) - 1)
        /\ (lst.pc = "done" /\ lst.ret = "err") => Len(lst.ports) \in {0, 6})
  /\ [][/\ lst.pc = "done" => lst' = lst
        /\ Len(lst.ports') <= Len(lst.ports) + 1]_vars

C18_Witness ==
  /\ lst.pc = "done"
  /\ lst.ret = "ln"
  /\ lst.ip[1] = 254
  /\ Len(lst.ports) = 6
  /\ lst.seeds[3] = <<0, lst.ip[2], lst.ip[3]>>
  /\ lst.seeds[5] = <<2, lst.ip[2], lst.ip[3]>>

(***************************************************************************)
(* C21: an upload is registered exactly while its handler runs: the set of *)
(* registered uploads is the set of handlers inside handlePeerPut that     *)
(* built an incomingFile; an upload leaves the set only in the step in     *)
(* which its handler returns, and every return of such a handler (success, *)
(* copy error, close error) takes it out; with no PUT in progress the set  *)
(* is empty; with no storage root nothing is ever registered.              *)
(***************************************************************************)
C21_RegisteredWhileServed ==
  /\ [](incomingFiles = { h \in Handlers : hs[h].pc # "ready" /\ hs[h].hasInFile })
  /\ []((\A h \in Handlers : hs[h].pc = "ready") => incomingFiles = {})
  /\ [](rootDir = "" => incomingFiles = {})
  /\ [][\A h \in Handlers :
          /\ (h \in incomingFiles /\ h \notin incomingFiles')
               => (resp'.h = h /\ resp'.f.hasInFile /\ hs'[h] = Ready)
          /\ (resp'.h = h /\ resp'.f.hasInFile)
               => (h \in incomingFiles /\ h \notin incomingFiles')
          /\ (h \notin incomingFiles /\ h \in incomingFiles')
               => (hs[h].pc = "ready" /\ hs'[h].hasInFile /\ rootDir # "")]_vars

\* A registered upload has just returned 200 while the other handler's upload,
\* which will fail, is still registered.
C21_Witness ==
  /\ resp.h # 0
  /\ resp.f.hasInFile
  /\ resp.f.status = 200
  /\ \E x \in Handlers \ {resp.h} : hs[x].pc = "copyErr" /\ incomingFiles = {x}
(***************************************************************************)
(* C22: what PartialFile returns is a (Received, Done) pair the upload     *)
(* held at one instant; the counter equals the bytes the underlying file   *)
(* took in the Writes whose counter update has completed, so it never      *)
(* exceeds the bytes forwarded; across snapshots Received never decreases  *)
(* and Done never reverts; sendFileNotify is never called while the        *)
(* calling goroutine holds the mutex.                                      *)
(***************************************************************************)
C22_ConsistentSnapshots ==
  /\ [](inf.last # NoSnap => <<inf.last.received, inf.last.done>> \in inf.held)
  /\ [](inf.copied = inf.forwarded - inf.n /\ inf.copied <= inf.forwarded)
  /\ [](inf.prev # NoSnap =>
          /\ inf.prev.received <= inf.last.received
          /\ (inf.prev.done => inf.last.done))
  /\ [](~inf.notifiedLocked)
  /\ [][/\ inf'.copied >= inf.copied
        /\ (inf.done => inf'.done)
        /\ (inf'.nNotify > inf.nNotify => inf.mu # "handler")]_vars

\* Two snapshots were taken during one upload: one between two Writes, one
\* after markAndNotifyDone, and both Writes notified.
C22_Witness ==
  /\ inf.prev # NoSnap
  /\ 0 < inf.prev.received
  /\ inf.prev.received < inf.last.received
  /\ ~inf.prev.done
  /\ inf.last.done
  /\ inf.nNotify = 3
(***************************************************************************)
(* C23: on the oneConnListener of a connection the first Accept returns    *)
(* the connection and every later Accept returns io.EOF, whether or not    *)
(* Close was called in between; Close returns nil and changes neither the  *)
(* connection nor the listener of the accept loop.                         *)
(***************************************************************************)
C23_OneConnListener ==
  /\ [](\A h \in Handlers : ocl[h].taken => ~ocl[h].conn)
  /\ [][\A h \in Handlers :
          (ocl'[h] # ocl[h] /\ conns[h].state = "serving") =>
            \/ /\ ocl'[h].ret \in {"conn", "EOF"}
               /\ ocl'[h].ret = "conn" <=> ~ocl[h].taken
               /\ ocl'[h].closeCalled = ocl[h].closeCalled
            \/ /\ ocl'[h].ret = "nil"
               /\ ocl'[h].closeCalled
               /\ ocl'[h].conn = ocl[h].conn
               /\ ocl'[h].taken = ocl[h].taken
               /\ pln' = pln
               /\ conns' = conns]_vars

\* The HTTP server of the first connection was closed and its listener has
\* answered io.EOF since; the loop is still accepting and the second
\* connection's listener has just handed over its connection.
C23_Witness ==
  /\ ocl[1].closeCalled
  /\ ocl[1].taken
  /\ ocl[1].ret = "EOF"
  /\ conns[2].state = "serving"
  /\ ocl[2].ret = "conn"
  /\ pln.ln = "open"
  /\ pln.pc = "accept"
C25_LaterCreateWins ==
  \A h \in Handlers :
    ( /\ PutOk
      /\ resp.h # h
      /\ hs[h].pc = "notify"
      /\ hs[h].status = 200
      /\ hs[h].dst = resp.f.dst
      /\ dir[resp.f.dst].kind = "file" )
    => dir[resp.f.dst].data = (IF resp.f.latest THEN resp.f.req.body ELSE hs[h].req.body)
(***************************************************************************)
(* C26, as stated: no request is answered 500 "misconfigured internals".   *)
(***************************************************************************)
C26_NoMisconfiguredInternals ==
  resp.h # 0 => ~(resp.f.status = 500 /\ resp.f.msg = "misconfigured internals")
(***************************************************************************)
(* C27: DeleteFile terminates.  Off Windows it never waits: the one        *)
(* os.Remove decides the result.  On Windows it goes into another pass     *)
(* only while less than 10 seconds have passed since the call began,       *)
(* returns success when a remove succeeds or finds no file, and returns    *)
(* the error only once the 10 seconds are used up.                         *)
(***************************************************************************)
C27_DeleteTerminates ==
  /\ (fe.pc = "backoff") ~> (fe.pc = "idle")
  /\ [](goos # "windows" => fe.pc = "idle")
  /\ [][(now' = now /\ fe'.pc = "backoff")
         => (goos = "windows" /\ now - fe'.t0 < DeleteRetrySeconds * Second)]_vars
  /\ [][(res'.op = "DeleteFile" /\ res'.fsAccess) =>
          LET t0 == IF fe.pc = "backoff" THEN fe.t0 ELSE now IN
          /\ fe'.pc = "idle"
          /\ res'.ret \in {"ok", "remove error"}
          /\ res'.ret = "ok" => dir'[res'.name].kind = "none"
          /\ res'.ret = "remove error" =>
               /\ dir[res'.name].kind # "none"
               /\ dir' = dir
               /\ goos = "windows" => now - t0 >= DeleteRetrySeconds * Second]_vars

\* On Windows a DeleteFile that began at tick 1 has just returned the error
\* of its last remove, 10 seconds later, after an earlier call had removed
\* the uploaded file.
C27_Witness ==
  /\ goos = "windows"
  /\ res.op = "DeleteFile"
  /\ res.name = nameSub
  /\ res.ret = "remove error"
  /\ now = 1 + DeleteRetrySeconds * Second
  /\ dir[nameA].kind = "none"
  /\ dir[nameSub].kind = "dir"
(***************************************************************************)
(* C28, as stated: no error returned by DeleteFile or OpenFile and no      *)
(* error body of a PUT that failed at create, copy or close holds the      *)
(* storage root.                                                           *)
(***************************************************************************)
C28_NoRootInErrors ==
  /\ (res.op \in {"DeleteFile", "OpenFile"} /\ res.ret # "ok") => res.errPath.root = ""
  /\ FailedPut => resp.f.errPath.root = ""
(***************************************************************************)
(* C29, as stated: on a non-direct server with a root, whenever no PUT and *)
(* no hasFilesWaiting call is in progress, knownEmpty = true implies that  *)
(* no regular file without the ".partial" suffix is in the directory.      *)
(* Checked off Windows, where the removal after a failed PUT cannot fail,  *)
(* so that every such file was left by a PUT answered 200.                 *)
(***************************************************************************)
C29_KnownEmptyMeansEmpty ==
  ( /\ rootDir # ""
    /\ ~directFileMode
    /\ goos # "windows"
    /\ \A h \in Handlers : hs[h].pc = "ready"
    /\ fe.pc = "idle"
    /\ knownEmpty )
  => ~AnyWaiting(dir)

(***************************************************************************)
(* C30, as stated: when a PUT returns 200 and no DeleteFile has run, a     *)
(* file exists at its destination, whatever other PUTs of the same name    *)
(* did meanwhile.                                                          *)
(***************************************************************************)
C30_FileExistsAfterPut ==
  PutOk => dir[resp.f.dst].kind = "file"
(***************************************************************************)
(* C31, as stated: every invocation of the function Run returned           *)
(* terminates, also when it is invoked again and when the name was         *)
(* registered again meanwhile; when it returns, the loop of its probe has  *)
(* exited and its probe is no longer in the table; Run on a name that is   *)
(* in the table panics and registers nothing.  An invocation need not      *)
(* terminate in a process that such a panic has ended.                     *)
(***************************************************************************)
C31_CancelFuncTerminates ==
  /\ \A c \in Callers :
       (pr.call[c].pc = "wait") ~> (pr.call[c].pc = "returned" \/ pr.panicked)
  /\ [][\A c \in Callers :
          (pr.call[c].pc = "wait" /\ pr'.call[c].pc = "returned") =>
            /\ pr.loop[pr.call[c].g] = "exited"
            /\ pr.probes[pr.name[pr.call[c].g]] # pr.call[c].g]_vars
  /\ [][(pr'.nRuns = pr.nRuns + 1) =>
          \E n \in ProbeNames : pr.probes[n] = 0 /\ pr'.probes[n] = pr'.nRuns]_vars
  /\ [][pr'.panicked => (pr.panicked \/ \E n \in ProbeNames : pr.probes[n] # 0)]_vars
====
